---- MODULE Spec2Model ----
(***************************************************************************)
(* Model of the GitHub CAE harvester (src/github_harvest/github_cae.py):   *)
(* the query cache, the harvest loop and the repository merge.             *)
(*                                                                         *)
(* Text is modelled as a sequence of one-character strings, so that        *)
(* normalisation, joining and sorting are computed as the code computes    *)
(* them.  Categories, repository full names and recipe type names are      *)
(* never inspected character by character and stay TLA+ strings.           *)
(***************************************************************************)
EXTENDS Integers, Sequences, FiniteSets, TLC

VARIABLES
    keywords,        \* table keywords: sequence of rows, id = index
    queries,         \* table queries: sequence of rows, id = index
    repos,           \* table repos: function full_name -> row
    repo_hits,       \* table repo_hits: sequence of rows, id = index
    keyword_candidates,  \* table keyword_candidates: sequence of rows, id = index
    clock,           \* logical clock read by utcnow_iso(): one tick per loop iteration
    pc,              \* position of the harvest process
    run,             \* arguments of the current run_harvest call
    executed_steps,  \* run_harvest local
    attempts,        \* run_harvest local
    cur,             \* run_harvest locals of the iteration: query, qid, hit_tags, page, total_count
    resp,            \* run_harvest local: the last response received (None before the first)
    items,           \* items of the current page not merged yet
    exc,             \* the exception caught or propagated ("none" when none)
    upstream,        \* the search API's side: requests received, throttle state
    pin,             \* inputs of the pure-function specifications
    proc             \* locals of the harvest processes that share one store

vars == <<keywords, queries, repos, repo_hits, keyword_candidates, clock, pc, run, executed_steps,
          attempts, cur, resp, items, exc, upstream, pin, proc>>

\* A nullable value (SQL NULL, Python None): None, or Some(v)
None == <<>>
Some(v) == <<v>>
IsSome(x) == x # <<>>
Get(x) == x[1]

-----------------------------------------------------------------------------
(* Characters and text *)

\* The characters the model uses, in code point order (Python compares
\* strings by code point).
Alphabet ==
    <<"\t", " ", "+", "-", ".", "0", "1", "2", "3", "4", "5", "6", "7", "8", "9",
      ":", "<", "=", ">",
      "A", "B", "C", "D", "E", "F", "G", "H", "I", "J", "K", "L", "M",
      "N", "O", "P", "Q", "R", "S", "T", "U", "V", "W", "X", "Y", "Z", "_",
      "a", "b", "c", "d", "e", "f", "g", "h", "i", "j", "k", "l", "m",
      "n", "o", "p", "q", "r", "s", "t", "u", "v", "w", "x", "y", "z">>

Ord(c) == CHOOSE i \in 1..Len(Alphabet) : Alphabet[i] = c

Whitespace == {"\t", " "}

\* str.lower() on one character: "A".."Z" are 27 places before "a".."z".
LowerChar(c) == IF Ord(c) >= Ord("A") /\ Ord(c) <= Ord("Z") THEN Alphabet[Ord(c) + 27] ELSE c

\* str.lower()
Lower(s) == [i \in 1..Len(s) |-> LowerChar(s[i])]

\* str.strip(): drop leading and trailing whitespace
Strip(s) ==
    LET nonws == {i \in 1..Len(s) : s[i] \notin Whitespace}
    IN  IF nonws = {} THEN <<>>
        ELSE LET lo == CHOOSE i \in nonws : \A j \in nonws : i <= j
                 hi == CHOOSE i \in nonws : \A j \in nonws : i >= j
             IN  SubSeq(s, lo, hi)

normalize_term(term) == Lower(Strip(term))

\* Python's str < str: lexicographic by code point
RECURSIVE StrLess(_, _)
StrLess(a, b) ==
    IF b = <<>> THEN FALSE
    ELSE IF a = <<>> THEN TRUE
    ELSE IF Head(a) # Head(b) THEN Ord(Head(a)) < Ord(Head(b))
    ELSE StrLess(Tail(a), Tail(b))

\* sorted(set): the strings of a set in ascending order
RECURSIVE Sorted(_)
Sorted(S) ==
    IF S = {} THEN <<>>
    ELSE LET m == CHOOSE x \in S : \A y \in S \ {x} : StrLess(x, y)
         IN  <<m>> \o Sorted(S \ {m})

Range(f) == {f[i] : i \in DOMAIN f}

\* "".join(parts): the parts with nothing between them
RECURSIVE JoinNoSpace(_)
JoinNoSpace(parts) ==
    IF parts = <<>> THEN <<>> ELSE parts[1] \o JoinNoSpace(Tail(parts))

\* " ".join(parts), and an f-string that puts one space between its fields
RECURSIVE Join(_)
Join(parts) ==
    IF parts = <<>> THEN <<>>
    ELSE IF Len(parts) = 1 THEN parts[1]
    ELSE parts[1] \o <<" ">> \o Join(Tail(parts))

-----------------------------------------------------------------------------
(* Keyword table and query generation *)

cfd    == <<"c", "f", "d">>
fem    == <<"f", "e", "m">>
solver == <<"s", "o", "l", "v", "e", "r">>
cuda   == <<"c", "u", "d", "a">>

\* The seed vocabulary: four of the rows of the source's list, one per
\* category, weights in hundredths (1.0 = 100).
SEED_KEYWORDS ==
    << <<"domain", cfd, 100, "manual">>,
       <<"method", fem, 100, "manual">>,
       <<"intent", solver, 100, "manual">>,
       <<"hpc", cuda, 50, "manual">> >>

\* a plain INSERT into a table without the UNIQUE constraint
InsertKeyword(kws, category, term, weight, source) ==
    Append(kws, [id |-> Len(kws) + 1, category |-> category, term |-> term,
                 weight |-> weight, status |-> "active", source |-> source])

\* INSERT OR IGNORE INTO keywords ... UNIQUE(category, term)
InsertKeywordOrIgnore(kws, category, term, weight, source) ==
    IF \E i \in 1..Len(kws) : kws[i].category = category /\ kws[i].term = term
    THEN kws
    ELSE Append(kws, [id |-> Len(kws) + 1, category |-> category, term |-> term,
                      weight |-> weight, status |-> "active", source |-> source])

RECURSIVE SeedFrom(_, _)
SeedFrom(kws, rest) ==
    IF rest = <<>> THEN kws
    ELSE SeedFrom(InsertKeywordOrIgnore(kws, rest[1][1], rest[1][2], rest[1][3], rest[1][4]),
                  Tail(rest))

db_seed_keywords(kws) == SeedFrom(kws, SEED_KEYWORDS)

\* a SELECT that forgets the category
db_get_active_keywords_any_category(kws, category) ==
    SelectSeq(kws, LAMBDA r : r.status = "active")

\* a SELECT that forgets the status
db_get_active_keywords_any_status(kws, category) ==
    SelectSeq(kws, LAMBDA r : r.category = category)

\* SELECT ... FROM keywords WHERE status='active' AND category=?
db_get_active_keywords(kws, category) ==
    SelectSeq(kws, LAMBDA r : r.status = "active" /\ r.category = category)

RECURSIVE SumWeights(_, _)
SumWeights(ws, n) == IF n = 0 THEN 0 ELSE ws[n] + SumWeights(ws, n - 1)

\* The loop of weighted_choice and of pick: the first index whose running
\* sum reaches r = random * total, the last index when none does.  random is
\* d/100 and the weights are hundredths, so upto >= r is upto*100 >= d*total.
WeightedIndex(ws, d) ==
    LET total == SumWeights(ws, Len(ws))
        hit   == {i \in 1..Len(ws) : SumWeights(ws, i) * 100 >= d * total}
    IN  IF hit = {} THEN Len(ws)
        ELSE CHOOSE i \in hit : \A j \in hit : i <= j

\* rng.choice(seq) with the generator's integer draw c
RngChoice(seq, c) == seq[(c % Len(seq)) + 1]

\* weighted_choice(items, rng): items are <<value, weight>> pairs
weighted_choice(its, d) ==
    LET ws == [i \in 1..Len(its) |-> its[i][2]]
    IN  IF SumWeights(ws, Len(ws)) <= 0 THEN RngChoice(its, d)[1]
        ELSE its[WeightedIndex(ws, d)][1]

\* pick(rows) of make_random_query, for non-empty rows
pick(rows, d) ==
    LET ws == [i \in 1..Len(rows) |-> rows[i].weight]
    IN  IF SumWeights(ws, Len(ws)) <= 0 THEN RngChoice(rows, d)
        ELSE rows[WeightedIndex(ws, d)]

RECIPE_WEIGHTS == << <<"DMI", 45>>, <<"DI", 25>>, <<"MI", 15>>, <<"DHI", 10>>, <<"DL", 5>> >>

lang_baits ==
    << <<"c", "+", "+">>, <<"f", "o", "r", "t", "r", "a", "n">>,
       <<"p", "y", "t", "h", "o", "n">>, <<"j", "u", "l", "i", "a">>,
       <<"r", "u", "s", "t">>, cuda >>

lic_baits ==
    << <<"l", "i", "c", "e", "n", "s", "e">>, <<"g", "p", "l">>, <<"l", "g", "p", "l">>,
       <<"b", "s", "d">>, <<"m", "i", "t">>,
       <<"a", "p", "a", "c", "h", "e", "-", "2", ".", "0">>,
       <<"m", "p", "l", "-", "2", ".", "0">>, <<"e", "p", "l", "-", "2", ".", "0">> >>

KwRef(r) == [id |-> r.id, category |-> r.category, term |-> r.term]

\* make_random_query(conn, rng).  d holds the generator's draws in the order
\* the code consumes them.  The result is [raised, query, hit_tags, recipe].
make_random_query(kws, d) ==
    LET domains == db_get_active_keywords(kws, "domain")
        methods == db_get_active_keywords(kws, "method")
        intents == db_get_active_keywords(kws, "intent")
        hpcs    == db_get_active_keywords(kws, "hpc")
    IN  IF domains = <<>> \/ methods = <<>> \/ intents = <<>>
        THEN [raised |-> "RuntimeError"]
        ELSE
        LET recipe_type == weighted_choice(RECIPE_WEIGHTS, d.rtype)
            dom    == pick(domains, d.dom)
            intent == pick(intents, d.intent)
            method == pick(methods, d.method)
            tags0  == ("domain" :> dom.term) @@ ("intent" :> intent.term)
        IN  CASE recipe_type = "DMI" ->
                   [raised |-> "none",
                    query |-> Join(<<dom.term, method.term, intent.term>>),
                    hit_tags |-> tags0 @@ ("method" :> method.term),
                    recipe |-> [type |-> "DMI", bait |-> None,
                                keywords |-> <<KwRef(dom), KwRef(method), KwRef(intent)>>]]
              [] recipe_type = "DI" ->
                   [raised |-> "none",
                    query |-> Join(<<dom.term, intent.term>>),
                    hit_tags |-> tags0,
                    recipe |-> [type |-> "DI", bait |-> None,
                                keywords |-> <<KwRef(dom), KwRef(intent)>>]]
              [] recipe_type = "MI" ->
                   [raised |-> "none",
                    query |-> Join(<<method.term, intent.term>>),
                    hit_tags |-> ("method" :> method.term) @@ ("intent" :> intent.term),
                    recipe |-> [type |-> "MI", bait |-> None,
                                keywords |-> <<KwRef(method), KwRef(intent)>>]]
              [] recipe_type = "DHI" ->
                   IF hpcs = <<>>
                   THEN \* recipe was built before the fallback and is not rebuilt
                        [raised |-> "none",
                         query |-> Join(<<dom.term, intent.term>>),
                         hit_tags |-> tags0,
                         recipe |-> [type |-> "DHI", bait |-> None, keywords |-> <<>>]]
                   ELSE LET hpc == pick(hpcs, d.hpc)
                        IN  [raised |-> "none",
                             query |-> Join(<<dom.term, intent.term, hpc.term>>),
                             hit_tags |-> tags0 @@ ("hpc" :> hpc.term),
                             recipe |-> [type |-> "DHI", bait |-> None,
                                         keywords |-> <<KwRef(dom), KwRef(intent), KwRef(hpc)>>]]
              [] OTHER ->
                   LET bait == RngChoice(lang_baits \o lic_baits, d.bait)
                   IN  [raised |-> "none",
                        query |-> Join(<<dom.term, intent.term, bait>>),
                        hit_tags |-> tags0 @@ ("bait" :> bait),
                        recipe |-> [type |-> "DL", bait |-> Some(bait),
                                    keywords |-> <<KwRef(dom), KwRef(intent)>>]]


-----------------------------------------------------------------------------
(* Numeric qualifiers *)

Digit(n) == Alphabet[Ord("0") + n]

\* str(n) for an integer n >= 0
RECURSIVE IntStr(_)
IntStr(n) == IF n < 10 THEN <<Digit(n)>> ELSE IntStr(n \div 10) \o <<Digit(n % 10)>>

\* a qualifier builder that also refuses min == max
_build_numeric_qualifier_strict(name, min_value, max_value) ==
    IF ~IsSome(min_value) /\ ~IsSome(max_value) THEN [raised |-> "none", value |-> None]
    ELSE IF \/ IsSome(min_value) /\ Get(min_value) < 0
            \/ IsSome(max_value) /\ Get(max_value) < 0
            \/ IsSome(min_value) /\ IsSome(max_value) /\ Get(min_value) >= Get(max_value)
    THEN [raised |-> "ValueError", value |-> None]
    ELSE [raised |-> "none",
          value |-> Some(name \o <<":">> \o
                         (IF IsSome(min_value) /\ IsSome(max_value)
                          THEN IntStr(Get(min_value)) \o <<".", ".">> \o IntStr(Get(max_value))
                          ELSE IF IsSome(min_value) THEN <<">", "=">> \o IntStr(Get(min_value))
                          ELSE <<"<", "=">> \o IntStr(Get(max_value))))]

\* _build_numeric_qualifier(name, min_value, max_value): [raised, value],
\* value None when the qualifier is omitted
_build_numeric_qualifier(name, min_value, max_value) ==
    IF ~IsSome(min_value) /\ ~IsSome(max_value) THEN [raised |-> "none", value |-> None]
    ELSE IF IsSome(min_value) /\ Get(min_value) < 0 THEN [raised |-> "ValueError", value |-> None]
    ELSE IF IsSome(max_value) /\ Get(max_value) < 0 THEN [raised |-> "ValueError", value |-> None]
    ELSE IF IsSome(min_value) /\ IsSome(max_value)
         THEN IF Get(min_value) > Get(max_value)
              THEN [raised |-> "ValueError", value |-> None]
              ELSE [raised |-> "none",
                    value |-> Some(name \o <<":">> \o IntStr(Get(min_value)) \o <<".", ".">>
                                   \o IntStr(Get(max_value)))]
    ELSE IF IsSome(min_value)
         THEN [raised |-> "none",
               value |-> Some(name \o <<":", ">", "=">> \o IntStr(Get(min_value)))]
    ELSE [raised |-> "none",
          value |-> Some(name \o <<":", "<", "=">> \o IntStr(Get(max_value)))]

name_stars     == <<"s", "t", "a", "r", "s">>
name_forks     == <<"f", "o", "r", "k", "s">>
name_followers == <<"f", "o", "l", "l", "o", "w", "e", "r", "s">>
name_topics    == <<"t", "o", "p", "i", "c", "s">>

\* an augmentation that leaves out a qualifier with invalid bounds
apply_repo_filters_to_query_unchecked(base_query, f) ==
    LET built == << _build_numeric_qualifier(name_stars, f.min_stars, f.max_stars),
                    _build_numeric_qualifier(name_forks, f.min_forks, f.max_forks),
                    _build_numeric_qualifier(name_followers, f.min_followers, f.max_followers),
                    _build_numeric_qualifier(name_topics, f.min_topics, f.max_topics) >>
        given == SelectSeq(built, LAMBDA b : IsSome(b.value))
        qualifiers == [i \in 1..Len(given) |-> Get(given[i].value)]
    IN  IF qualifiers = <<>> THEN [raised |-> "none", query |-> base_query]
        ELSE [raised |-> "none", query |-> base_query \o <<" ">> \o Join(qualifiers)]

\* an augmentation that puts the forks qualifier before the stars qualifier
apply_repo_filters_to_query_forks_first(base_query, f) ==
    LET built == << _build_numeric_qualifier(name_forks, f.min_forks, f.max_forks),
                    _build_numeric_qualifier(name_stars, f.min_stars, f.max_stars),
                    _build_numeric_qualifier(name_followers, f.min_followers, f.max_followers),
                    _build_numeric_qualifier(name_topics, f.min_topics, f.max_topics) >>
        given == SelectSeq(built, LAMBDA b : IsSome(b.value))
        qualifiers == [i \in 1..Len(given) |-> Get(given[i].value)]
    IN  IF \E i \in 1..4 : built[i].raised # "none"
        THEN [raised |-> "ValueError", query |-> base_query]
        ELSE IF qualifiers = <<>> THEN [raised |-> "none", query |-> base_query]
        ELSE [raised |-> "none", query |-> base_query \o <<" ">> \o Join(qualifiers)]

\* apply_repo_filters_to_query(base_query, ...): [raised, query].  f holds the
\* eight bounds.  The four qualifiers are built in order before any is used,
\* so the first that raises ends the call.
apply_repo_filters_to_query(base_query, f) ==
    LET built == << _build_numeric_qualifier(name_stars, f.min_stars, f.max_stars),
                    _build_numeric_qualifier(name_forks, f.min_forks, f.max_forks),
                    _build_numeric_qualifier(name_followers, f.min_followers, f.max_followers),
                    _build_numeric_qualifier(name_topics, f.min_topics, f.max_topics) >>
        given == SelectSeq(built, LAMBDA b : IsSome(b.value))
        qualifiers == [i \in 1..Len(given) |-> Get(given[i].value)]
    IN  IF \E i \in 1..4 : built[i].raised # "none"
        THEN [raised |-> "ValueError", query |-> base_query]
        ELSE IF qualifiers = <<>> THEN [raised |-> "none", query |-> base_query]
        ELSE [raised |-> "none", query |-> base_query \o <<" ">> \o Join(qualifiers)]

-----------------------------------------------------------------------------
(* Query cache *)

\* json.dumps(v): the text of a JSON document holding v
JsonDumps(v) == [kind |-> "json", value |-> v]

\* _load_json(s, default): s is a nullable text column
_load_json(s, default) ==
    IF ~IsSome(s) THEN default
    ELSE IF Get(s).kind = "json" THEN Get(s).value
    ELSE default

QueryIdOf(qs, query) == CHOOSE i \in 1..Len(qs) : qs[i].query = query

\* INSERT OR REPLACE: a row with the same query string is overwritten
InsertQueryOrReplace(qs, query, recipe) ==
    IF \E i \in 1..Len(qs) : qs[i].query = query
    THEN [i \in 1..Len(qs) |->
             IF qs[i].query = query
             THEN [id |-> qs[i].id, query |-> query, recipe_json |-> JsonDumps(recipe),
                   executed_at |-> None, last_status |-> None,
                   last_total_count |-> None, last_error |-> None]
             ELSE qs[i]]
    ELSE Append(qs, [id |-> Len(qs) + 1, query |-> query, recipe_json |-> JsonDumps(recipe),
                     executed_at |-> None, last_status |-> None,
                     last_total_count |-> None, last_error |-> None])

\* db_insert_query_if_new(conn, query, recipe): the table after INSERT OR
\* IGNORE (query is UNIQUE)
InsertQueryOrIgnore(qs, query, recipe) ==
    IF \E i \in 1..Len(qs) : qs[i].query = query THEN qs
    ELSE Append(qs, [id |-> Len(qs) + 1, query |-> query, recipe_json |-> JsonDumps(recipe),
                     executed_at |-> None, last_status |-> None,
                     last_total_count |-> None, last_error |-> None])

\* db_insert_query_if_new: [queries, id]
db_insert_query_if_new(qs, query, recipe) ==
    LET after == InsertQueryOrIgnore(qs, query, recipe)
    IN  [queries |-> after, id |-> QueryIdOf(after, query)]

\* a cache test that finds nothing executed
db_query_is_executed_never(qs, query_id) == FALSE

\* db_query_is_executed(conn, query_id)
db_query_is_executed(qs, query_id) ==
    query_id \in 1..Len(qs) /\ IsSome(qs[query_id].executed_at)

\* an UPDATE that sets the status columns and leaves executed_at alone
db_mark_query_executed_no_timestamp(qs, query_id, now, status, total_count, error) ==
    [i \in 1..Len(qs) |->
        IF qs[i].id = query_id
        THEN [qs[i] EXCEPT !.last_status = Some(status),
                           !.last_total_count = total_count, !.last_error = error]
        ELSE qs[i]]

\* db_mark_query_executed(conn, query_id, status, total_count, error), now
\* being utcnow_iso()
db_mark_query_executed(qs, query_id, now, status, total_count, error) ==
    [i \in 1..Len(qs) |->
        IF qs[i].id = query_id
        THEN [qs[i] EXCEPT !.executed_at = Some(now), !.last_status = Some(status),
                           !.last_total_count = total_count, !.last_error = error]
        ELSE qs[i]]


-----------------------------------------------------------------------------
(* Repository storage and tag merge *)

\* a merge in which the incoming term replaces the terms of its category
merge_repo_tags_overwrite(existing, hit_tags) ==
    [k \in DOMAIN existing \cup DOMAIN hit_tags |->
        IF k \in DOMAIN hit_tags THEN <<hit_tags[k]>> ELSE Sorted(Range(existing[k]))]

\* merge_repo_tags(existing, hit_tags): existing maps a category to a list of
\* terms, hit_tags a category to one term; dicts are functions
merge_repo_tags(existing, hit_tags) ==
    [k \in DOMAIN existing \cup DOMAIN hit_tags |->
        Sorted((IF k \in DOMAIN existing THEN Range(existing[k]) ELSE {})
               \cup (IF k \in DOMAIN hit_tags THEN {hit_tags[k]} ELSE {}))]

EmptyDict == [k \in {} |-> <<>>]

\* The incoming topic list of db_upsert_repo_and_hit: sorted set of the
\* normalised topics that are not blank
IncomingTopics(repo_item) ==
    Sorted({normalize_term(t) : t \in {u \in Range(repo_item.topics) : Strip(u) # <<>>}})

\* stored topics that follow the latest item, as the metadata snapshot does
merged_topics_latest_wins(existing_topics, incoming_topics) == incoming_topics

\* merged_topics = sorted(set(existing_topics) | set(incoming_topics))
merged_topics_of(existing_topics, incoming_topics) ==
    Sorted(Range(existing_topics) \cup Range(incoming_topics))

\* an upsert that writes the row anew whether or not it exists
UpsertRepoRowReplace(rs, repo_item, hit_tags, now) ==
    [n \in DOMAIN rs \cup {Get(repo_item.full_name)} |->
        IF n = Get(repo_item.full_name)
        THEN [full_name |-> n,
              html_url |-> repo_item.html_url,
              api_url |-> repo_item.url,
              description |-> repo_item.description,
              first_seen_at |-> now,
              last_seen_at |-> now,
              repo_json |-> Some(JsonDumps(repo_item)),
              topics_json |-> Some(JsonDumps(IncomingTopics(repo_item))),
              merged_tags_json |-> Some(JsonDumps(merge_repo_tags(EmptyDict, hit_tags)))]
        ELSE rs[n]]

\* The UPDATE and INSERT branches of db_upsert_repo_and_hit
UpsertRepoRow(rs, repo_item, hit_tags, now) ==
    LET full_name == Get(repo_item.full_name)
        incoming_topics == IncomingTopics(repo_item)
    IN  IF full_name \in DOMAIN rs
        THEN LET existing_tags   == _load_json(rs[full_name].merged_tags_json, EmptyDict)
                 existing_topics == _load_json(rs[full_name].topics_json, <<>>)
                 merged_tags     == merge_repo_tags(existing_tags, hit_tags)
                 merged_topics   == merged_topics_of(existing_topics, incoming_topics)
             IN  [rs EXCEPT ![full_name] =
                     [@ EXCEPT !.html_url = repo_item.html_url,
                               !.api_url = repo_item.url,
                               !.description = repo_item.description,
                               !.last_seen_at = now,
                               !.repo_json = Some(JsonDumps(repo_item)),
                               !.topics_json = Some(JsonDumps(merged_topics)),
                               !.merged_tags_json = Some(JsonDumps(merged_tags))]]
        ELSE rs @@ (full_name :>
                     [full_name |-> full_name,
                      html_url |-> repo_item.html_url,
                      api_url |-> repo_item.url,
                      description |-> repo_item.description,
                      first_seen_at |-> now,
                      last_seen_at |-> now,
                      repo_json |-> Some(JsonDumps(repo_item)),
                      topics_json |-> Some(JsonDumps(incoming_topics)),
                      merged_tags_json |-> Some(JsonDumps(merge_repo_tags(EmptyDict, hit_tags)))])

\* hit rows that are written when the next page has been fetched
InsertRepoHitDeferred(hits, query_id, full_name, now, hit_tags) == hits

\* one hit row per repository: a later hit takes the place of the earlier
InsertRepoHitOnePerRepo(hits, query_id, full_name, now, hit_tags) ==
    IF \E i \in 1..Len(hits) : hits[i].repo_full_name = full_name
    THEN [i \in 1..Len(hits) |->
             IF hits[i].repo_full_name = full_name
             THEN [hits[i] EXCEPT !.query_id = query_id, !.seen_at = now,
                                  !.hit_tags_json = JsonDumps(hit_tags)]
             ELSE hits[i]]
    ELSE Append(hits, [id |-> Len(hits) + 1, query_id |-> query_id,
                       repo_full_name |-> full_name, seen_at |-> now,
                       hit_tags_json |-> JsonDumps(hit_tags)])

\* INSERT INTO repo_hits(query_id, repo_full_name, seen_at, hit_tags_json)
InsertRepoHit(hits, query_id, full_name, now, hit_tags) ==
    Append(hits, [id |-> Len(hits) + 1, query_id |-> query_id, repo_full_name |-> full_name,
                  seen_at |-> now, hit_tags_json |-> JsonDumps(hit_tags)])

\* db_upsert_repo_and_hit(conn, query_id, repo_item, hit_tags):
\* [raised, repos, repo_hits].  An item that is no dict has no get().
db_upsert_repo_and_hit(rs, hits, query_id, repo_item, hit_tags, now) ==
    IF repo_item.kind # "dict"
    THEN [raised |-> "AttributeError", repos |-> rs, repo_hits |-> hits]
    ELSE IF ~IsSome(repo_item.full_name) \/ Get(repo_item.full_name) = ""
    THEN [raised |-> "none", repos |-> rs, repo_hits |-> hits]
    ELSE [raised |-> "none",
          repos |-> UpsertRepoRow(rs, repo_item, hit_tags, now),
          repo_hits |-> InsertRepoHit(hits, query_id, Get(repo_item.full_name), now, hit_tags)]

\* A text column whose content json.loads() rejects
BrokenJson == [kind |-> "broken"]

\* The rows that the WHERE clause of db_get_repos_missing_topics selects:
\* topics_json is NULL, is no valid JSON, or is an empty array (the topics
\* column of the model holds arrays only)
MissingTopics(rs) ==
    {n \in DOMAIN rs :
        \/ ~IsSome(rs[n].topics_json)
        \/ Get(rs[n].topics_json).kind # "json"
        \/ Get(rs[n].topics_json).value = <<>>}

\* a selection of the most recent rows, with or without topics
db_get_repos_all(rs, limit) ==
    LET size == IF limit < Cardinality(DOMAIN rs) THEN limit ELSE Cardinality(DOMAIN rs)
    IN  { S \in SUBSET DOMAIN rs :
            /\ Cardinality(S) = size
            /\ \A a \in S, b \in DOMAIN rs \ S : rs[b].last_seen_at <= rs[a].last_seen_at }

\* db_get_repos_missing_topics(conn, limit): the sets of names that
\* ORDER BY last_seen_at DESC LIMIT ? can return; rows with the same
\* last_seen_at come in any order
db_get_repos_missing_topics(rs, limit) ==
    LET missing == MissingTopics(rs)
        size == IF limit < Cardinality(missing) THEN limit ELSE Cardinality(missing)
    IN  { S \in SUBSET missing :
            /\ Cardinality(S) = size
            /\ \A a \in S, b \in missing \ S : rs[b].last_seen_at <= rs[a].last_seen_at }

\* db_update_repo_details_and_topics(conn, full_name, repo_detail)
db_update_repo_details_and_topics(rs, full_name, repo_detail, now) ==
    LET topics == IF IsSome(repo_detail.topics) THEN Get(repo_detail.topics) ELSE <<>>
    IN  IF full_name \in DOMAIN rs
        THEN [rs EXCEPT ![full_name] = [@ EXCEPT !.topics_json = Some(JsonDumps(topics)),
                                                 !.last_seen_at = now]]
        ELSE rs

\* run_enrich_topics(conn, client, limit, min_sleep) for the selected targets
\* and the response to the detail request of each: the repos table it leaves
run_enrich_topics(rs, targets, responses, now) ==
    [n \in DOMAIN rs |->
        IF n \in targets /\ responses[n].status = 200
        THEN db_update_repo_details_and_topics(rs, n, Get(responses[n].json), now)[n]
        ELSE rs[n]]

-----------------------------------------------------------------------------
(* Candidate scores and the candidate table *)

\* A Python float (IEEE double) near a whole number of tenths: [t, e] is the
\* double (t * 2^54 + e) / (10 * 2^54), for doubles that are 0 or in
\* [0.25, 16).  Such a double is k / 2^54 for an integer k, and so is the
\* exact sum of two of them; e is the distance of the double from t / 10.
Float03 == [t |-> 3, e |-> -2]     \* 0.3 is 5404319552844595 / 2^54
Float10 == [t |-> 10, e |-> 0]     \* 1.0

\* x < tenths / 10
FloatBelow(x, tenths) == x.t < tenths \/ (x.t = tenths /\ x.e < 0)

\* the unit in the last place of the doubles of x's binade is 2^UlpShift / 2^54
UlpShift(x) ==
    IF FloatBelow(x, 5) THEN 0 ELSE IF FloatBelow(x, 10) THEN 1
    ELSE IF FloatBelow(x, 20) THEN 2 ELSE IF FloatBelow(x, 40) THEN 3
    ELSE IF FloatBelow(x, 80) THEN 4 ELSE 5

\* 2^n modulo 10, for n >= 1
Pow2Mod10(n) == CASE n % 4 = 0 -> 6 [] n % 4 = 1 -> 2 [] n % 4 = 2 -> 4 [] n % 4 = 3 -> 8

\* The double nearest to x, ties to the even significand (the rounding of
\* every float operation): k modulo 2u is taken from (t * 2^54 + e) modulo
\* 20u, u being the unit in the last place.
FloatRound(x) ==
    LET s   == UlpShift(x)
        u   == 2 ^ s
        m   == ((x.t * (2 * u * Pow2Mod10(53 - s)) + x.e) % (20 * u)) \div 10
        r   == m % u
        odd == m >= u
    IN  IF r = 0 THEN x
        ELSE IF 2 * r < u \/ (2 * r = u /\ ~odd) THEN [x EXCEPT !.e = @ - 10 * r]
        ELSE [x EXCEPT !.e = @ + 10 * (u - r)]

\* x + y on floats
FloatAdd(x, y) == FloatRound([t |-> x.t + y.t, e |-> x.e + y.e])

\* a score that is the number of observations, whatever the field
db_add_candidate_counts_only(cands, term, field, repo_full_name, score_inc, now) ==
    LET t == normalize_term(term)
    IN  IF \E i \in 1..Len(cands) : cands[i].term = t
        THEN [i \in 1..Len(cands) |->
                 IF cands[i].term = t
                 THEN [cands[i] EXCEPT !.score = FloatAdd(@, Float10), !.occurrences = @ + 1,
                                       !.last_seen_at = now]
                 ELSE cands[i]]
        ELSE Append(cands, [id |-> Len(cands) + 1, term |-> t, suggested_category |-> None,
                            score |-> Float10, occurrences |-> 1, first_seen_at |-> now,
                            last_seen_at |-> now, sources_json |-> Some(JsonDumps(<<>>)),
                            status |-> "pending"])

\* keep at most 30 sources
MaxSources == 30

\* an observation that always keeps its evidence
db_add_candidate_uncapped(cands, term, field, repo_full_name, score_inc, now) ==
    LET t == normalize_term(term)
        new_source == [repo_full_name |-> repo_full_name, field |-> field, evidence |-> t]
    IN  IF \E i \in 1..Len(cands) : cands[i].term = t
        THEN [i \in 1..Len(cands) |->
                 IF cands[i].term = t
                 THEN [cands[i] EXCEPT
                          !.score = FloatAdd(@, score_inc),
                          !.occurrences = @ + 1,
                          !.last_seen_at = now,
                          !.sources_json =
                              Some(JsonDumps(Append(_load_json(@, <<>>), new_source)))]
                 ELSE cands[i]]
        ELSE Append(cands, [id |-> Len(cands) + 1, term |-> t, suggested_category |-> None,
                            score |-> score_inc, occurrences |-> 1, first_seen_at |-> now,
                            last_seen_at |-> now,
                            sources_json |-> Some(JsonDumps(<<new_source>>)),
                            status |-> "pending"])

\* an upsert that gives up on a row whose sources it cannot read
db_add_candidate_skips_unreadable(cands, term, field, repo_full_name, score_inc, now) ==
    LET t == normalize_term(term)
        new_source == [repo_full_name |-> repo_full_name, field |-> field, evidence |-> t]
    IN  IF \E i \in 1..Len(cands) : cands[i].term = t
        THEN [i \in 1..Len(cands) |->
                 IF cands[i].term = t /\ IsSome(cands[i].sources_json)
                                     /\ Get(cands[i].sources_json).kind = "json"
                 THEN LET sources == Get(cands[i].sources_json).value
                      IN  [cands[i] EXCEPT
                              !.score = FloatAdd(@, score_inc),
                              !.occurrences = @ + 1,
                              !.last_seen_at = now,
                              !.sources_json =
                                  Some(JsonDumps(IF Len(sources) < MaxSources
                                                 THEN Append(sources, new_source)
                                                 ELSE sources))]
                 ELSE cands[i]]
        ELSE Append(cands, [id |-> Len(cands) + 1, term |-> t, suggested_category |-> None,
                            score |-> score_inc, occurrences |-> 1, first_seen_at |-> now,
                            last_seen_at |-> now,
                            sources_json |-> Some(JsonDumps(<<new_source>>)),
                            status |-> "pending"])

\* db_add_candidate(conn, term, field, repo_full_name, score_inc), now being
\* utcnow_iso()
db_add_candidate(cands, term, field, repo_full_name, score_inc, now) ==
    LET t == normalize_term(term)
        new_source == [repo_full_name |-> repo_full_name, field |-> field, evidence |-> t]
    IN  IF \E i \in 1..Len(cands) : cands[i].term = t
        THEN [i \in 1..Len(cands) |->
                 IF cands[i].term = t
                 THEN LET sources == _load_json(cands[i].sources_json, <<>>)
                      IN  [cands[i] EXCEPT
                              !.score = FloatAdd(@, score_inc),
                              !.occurrences = @ + 1,
                              !.last_seen_at = now,
                              !.sources_json =
                                  Some(JsonDumps(IF Len(sources) < MaxSources
                                                 THEN Append(sources, new_source)
                                                 ELSE sources))]
                 ELSE cands[i]]
        ELSE Append(cands, [id |-> Len(cands) + 1, term |-> t, suggested_category |-> None,
                            score |-> score_inc, occurrences |-> 1, first_seen_at |-> now,
                            last_seen_at |-> now,
                            sources_json |-> Some(JsonDumps(<<new_source>>)),
                            status |-> "pending"])

-----------------------------------------------------------------------------
(* Candidate mining and promotion *)

Digits       == {"0", "1", "2", "3", "4", "5", "6", "7", "8", "9"}
LowerLetters == {Alphabet[i] : i \in Ord("a")..Ord("z")}
UpperLetters == {Alphabet[i] : i \in Ord("A")..Ord("Z")}

\* the characters that [^a-zA-Z0-9\-\_]+ does not split on
WordChars == LowerLetters \cup UpperLetters \cup Digits \cup {"-", "_"}

\* re.split(r"[^a-zA-Z0-9\-\_]+", s): the pieces between the runs of
\* separators, an empty piece where s begins or ends with a separator
RECURSIVE SplitAcc(_, _, _)
SplitAcc(s, piece, insep) ==
    IF s = <<>> THEN <<piece>>
    ELSE IF Head(s) \in WordChars THEN SplitAcc(Tail(s), Append(piece, Head(s)), FALSE)
    ELSE IF insep THEN SplitAcc(Tail(s), piece, TRUE)
    ELSE <<piece>> \o SplitAcc(Tail(s), <<>>, TRUE)

re_split(s) == SplitAcc(s, <<>>, FALSE)

\* The members of STOPWORDS that the texts of the model can contain
STOPWORDS == { <<"t", "h", "e">>, <<"a", "n", "d">>, <<"f", "o", "r">>, <<"c", "o", "d", "e">>, <<"t", "o", "o", "l">>, <<"s", "o", "l", "v", "e", "r">>, <<"d", "o", "c", "s">> }

\* the set of extract_candidate_terms: {"readme", "docs", "doc", "test", "tests"}
GenericTerms == { <<"r", "e", "a", "d", "m", "e">>, <<"d", "o", "c", "s">>, <<"d", "o", "c">>, <<"t", "e", "s", "t">>, <<"t", "e", "s", "t", "s">> }

\* str.isdigit()
isdigit(t) == t # <<>> /\ \A i \in 1..Len(t) : t[i] \in Digits

\* TOKEN_RE.match(t), TOKEN_RE being [a-z0-9][a-z0-9\-\_]{2,48}$
TOKEN_RE_match(t) ==
    /\ Len(t) >= 1 + 2
    /\ Len(t) <= 1 + 48
    /\ t[1] \in LowerLetters \cup Digits
    /\ \A i \in 2..Len(t) : t[i] \in LowerLetters \cup Digits \cup {"-", "_"}

\* extract_candidate_terms(text)
extract_candidate_terms(text) ==
    IF text = <<>> THEN <<>>
    ELSE LET raw == re_split(Lower(text))
             normalized == [i \in 1..Len(raw) |-> normalize_term(raw[i])]
         IN  SelectSeq(normalized,
                       LAMBDA t : /\ t # <<>>
                                  /\ t \notin STOPWORDS
                                  /\ ~isdigit(t)
                                  /\ TOKEN_RE_match(t)
                                  /\ t \notin GenericTerms)

\* Python's a in b on strings
IsSubstring(a, b) == \E i \in 0..(Len(b) - Len(a)) : SubSeq(b, i + 1, i + Len(a)) = a

\* a filter that knows only the keyword terms themselves
should_skip_candidate_term_exact(term, existing_keyword_terms) ==
    LET t == normalize_term(term)
    IN  t = <<>> \/ t \in existing_keyword_terms

\* should_skip_candidate_term(term, existing_keyword_terms)
should_skip_candidate_term(term, existing_keyword_terms) ==
    LET t == normalize_term(term)
    IN  \/ t = <<>>
        \/ t \in existing_keyword_terms
        \/ \E kw \in existing_keyword_terms :
               kw # <<>> /\ (IsSubstring(kw, t) \/ IsSubstring(t, kw))

\* SELECT ... FROM repos ORDER BY last_seen_at DESC LIMIT ?, for a table
\* whose rows differ in last_seen_at
RECURSIVE RecentRepos(_, _, _)
RecentRepos(rs, names, limit) ==
    IF names = {} \/ limit <= 0 THEN <<>>
    ELSE LET n == CHOOSE x \in names :
                      \A y \in names : rs[y].last_seen_at <= rs[x].last_seen_at
         IN  <<rs[n]>> \o RecentRepos(rs, names \ {n}, limit - 1)

\* the db_add_candidate calls of one loop of run_extract_candidates
RECURSIVE AddCandidates(_, _, _, _, _, _, _)
AddCandidates(cands, terms, existing_keyword_terms, field, full_name, score_inc, now) ==
    IF terms = <<>> THEN cands
    ELSE LET t == IF field = "topic" THEN normalize_term(Head(terms)) ELSE Head(terms)
             skip == \/ t = <<>>
                     \/ t \in STOPWORDS
                     \/ should_skip_candidate_term(t, existing_keyword_terms)
         IN  AddCandidates(IF skip THEN cands
                           ELSE db_add_candidate(cands, t, field, full_name, score_inc, now),
                           Tail(terms), existing_keyword_terms, field, full_name, score_inc, now)

\* the for loop of run_extract_candidates over the selected rows
RECURSIVE ExtractFromRows(_, _, _, _)
ExtractFromRows(cands, rows, existing_keyword_terms, now) ==
    IF rows = <<>> THEN cands
    ELSE LET row    == Head(rows)
             repo   == _load_json(row.repo_json, EmptyDict)
             desc   == IF "description" \in DOMAIN repo /\ IsSome(repo.description)
                       THEN Get(repo.description) ELSE <<>>
             topics == _load_json(row.topics_json, <<>>)
             after_desc   == AddCandidates(cands, extract_candidate_terms(desc),
                                           existing_keyword_terms, "description",
                                           row.full_name, Float03, now)
             after_topics == AddCandidates(after_desc, topics, existing_keyword_terms,
                                           "topic", row.full_name, Float10, now)
         IN  ExtractFromRows(after_topics, Tail(rows), existing_keyword_terms, now)

\* run_extract_candidates(conn, limit_repos): the candidate table it leaves
run_extract_candidates(kws, rs, cands, limit_repos, now) ==
    LET rows == RecentRepos(rs, DOMAIN rs, limit_repos)
        existing_keyword_terms ==
            {normalize_term(kws[i].term) : i \in {j \in 1..Len(kws) : kws[j].term # <<>>}}
    IN  ExtractFromRows(cands, rows, existing_keyword_terms, now)

\* a test that only finds paused keywords
db_keyword_exists_paused_only(kws, category, term) ==
    \E i \in 1..Len(kws) :
        kws[i].category = category /\ kws[i].term = term /\ kws[i].status = "paused"

\* db_keyword_exists(conn, category, term)
db_keyword_exists(kws, category, term) ==
    \E i \in 1..Len(kws) : kws[i].category = category /\ kws[i].term = term

\* db_promote_candidate(conn, term, category, weight, source); weight is
\* Some(hundredths) or None for NaN.  sqlite3 binds NaN as NULL, and INSERT
\* OR IGNORE skips a row that violates weight REAL NOT NULL.
db_promote_candidate(kws, cands, term, category, weight, source) ==
    LET t == normalize_term(term)
    IN  [keywords |-> IF IsSome(weight)
                      THEN InsertKeywordOrIgnore(kws, category, t, Get(weight), source)
                      ELSE kws,
         keyword_candidates |->
             [i \in 1..Len(cands) |->
                 IF cands[i].term = t THEN [cands[i] EXCEPT !.status = "promoted"]
                 ELSE cands[i]]]

\* x or "" on an optional string
OrEmpty(x) == IF IsSome(x) THEN Get(x) ELSE <<>>

\* Categories are names, as in hit_tags: x or "" on an optional name, and
\* str.strip() on the names of the model, of which only the blank one has
\* outer whitespace
OrEmptyName(x) == IF IsSome(x) THEN Get(x) ELSE ""
StripName(c) == IF c = " " THEN "" ELSE c

\* float(row_weight) for the weight texts of the model: a digit, a dot and a
\* digit, with or without a minus sign, give Some(hundredths); "nan" gives
\* the float NaN, written None; any other text raises ValueError
IsDecimal(t) == Len(t) = 3 /\ t[1] \in Digits /\ t[2] = "." /\ t[3] \in Digits
DecimalOf(t) == 100 * (Ord(t[1]) - Ord("0")) + 10 * (Ord(t[3]) - Ord("0"))
ParsesAsFloat(t) ==
    \/ IsDecimal(t)
    \/ (Len(t) = 4 /\ t[1] = "-" /\ IsDecimal(Tail(t)))
    \/ Lower(t) = <<"n", "a", "n">>
FloatOf(t) ==
    IF Lower(t) = <<"n", "a", "n">> THEN None
    ELSE IF t[1] = "-" THEN Some(0 - DecimalOf(Tail(t)))
    ELSE Some(DecimalOf(t))

\* the default of --weight, in hundredths, and of --source
DefaultWeight == 40
DefaultSource == "auto"

\* term, category and weight text of one CSV row, as the batch loop of
\* cmd_promote reads them
RowTerm(row) == normalize_term(Strip(OrEmpty(row.term)))
RowCategory(row, args_category) ==
    StripName(IF OrEmptyName(row.category) # "" THEN Get(row.category)
              ELSE IF OrEmptyName(row.suggested_category) # ""
                   THEN Get(row.suggested_category)
              ELSE OrEmptyName(args_category))
RowWeightText(row) == Strip(OrEmpty(row.weight))

\* the counters of the batch loop
NoTally == [promoted |-> 0, skipped_exists |-> 0, skipped_missing_term |-> 0,
            skipped_missing_category |-> 0, skipped_invalid_weight |-> 0]

\* the counter that the batch loop increments for a row
RowTally(kws, row, args_category) ==
    IF RowTerm(row) = <<>> THEN "skipped_missing_term"
    ELSE IF RowCategory(row, args_category) = "" THEN "skipped_missing_category"
    ELSE IF RowWeightText(row) # <<>> /\ ~ParsesAsFloat(RowWeightText(row))
         THEN "skipped_invalid_weight"
    ELSE IF db_keyword_exists(kws, RowCategory(row, args_category), RowTerm(row))
         THEN "skipped_exists"
    ELSE "promoted"

\* the batch loop of cmd_promote over the rows of the CSV file
RECURSIVE PromoteRows(_, _, _, _, _)
PromoteRows(kws, cands, rows, args_category, tally) ==
    IF rows = <<>> THEN [keywords |-> kws, keyword_candidates |-> cands, tally |-> tally]
    ELSE LET row     == Head(rows)
             counter == RowTally(kws, row, args_category)
             weight  == IF RowWeightText(row) # <<>> THEN FloatOf(RowWeightText(row))
                        ELSE Some(DefaultWeight)
             done    == db_promote_candidate(kws, cands, RowTerm(row),
                                             RowCategory(row, args_category), weight,
                                             DefaultSource)
             counted == [tally EXCEPT ![counter] = @ + 1]
         IN  IF counter # "promoted"
             THEN PromoteRows(kws, cands, Tail(rows), args_category, counted)
             ELSE PromoteRows(done.keywords, done.keyword_candidates, Tail(rows),
                              args_category, counted)

\* the single-term mode of cmd_promote; term and category are the optional
\* command line arguments, weight is the float of --weight
cmd_promote_single(kws, cands, term, category, weight) ==
    IF OrEmpty(term) = <<>> \/ OrEmptyName(category) = ""
    THEN [outcome |-> "RuntimeError", keywords |-> kws, keyword_candidates |-> cands]
    ELSE IF db_keyword_exists(kws, Get(category), normalize_term(Get(term)))
    THEN [outcome |-> "exists", keywords |-> kws, keyword_candidates |-> cands]
    ELSE LET done == db_promote_candidate(kws, cands, normalize_term(Get(term)),
                                          Get(category), weight, DefaultSource)
         IN  [outcome |-> "promoted", keywords |-> done.keywords,
              keyword_candidates |-> done.keyword_candidates]

\* infer_candidate_category(term): the members of its three sets that the
\* terms of the model can be
infer_candidate_category(term) ==
    IF term \in { <<"c", "u", "d", "a">>, <<"g", "p", "u">>, <<"m", "p", "i">> } THEN Some("hpc")
    ELSE IF term \in { <<"f", "e", "m">>, <<"f", "e", "a">>, <<"f", "v", "m">> } THEN Some("method")
    ELSE IF term \in { <<"s", "o", "l", "v", "e", "r">>, <<"e", "n", "g", "i", "n", "e">> } THEN Some("intent")
    ELSE None

\* x < y on floats
FloatLess(x, y) == x.t < y.t \/ (x.t = y.t /\ x.e < y.e)

\* a comes before b in ORDER BY score DESC, occurrences DESC
RanksBefore(a, b) ==
    \/ FloatLess(b.score, a.score)
    \/ (a.score = b.score /\ a.occurrences > b.occurrences)

\* The row sets that SELECT ... WHERE status='pending' ORDER BY score DESC,
\* occurrences DESC LIMIT top_n can return: rows that tie come in any order
TopPending(cands, top_n) ==
    LET pending == {i \in 1..Len(cands) : cands[i].status = "pending"}
        size == IF top_n < Cardinality(pending) THEN top_n ELSE Cardinality(pending)
    IN  { S \in SUBSET pending :
            /\ Cardinality(S) = size
            /\ \A i \in S, j \in pending \ S : ~RanksBefore(cands[j], cands[i]) }

\* a suggestion that goes to every row with a known term, whatever its status
run_suggest_categories_every_row(cands, selected) ==
    [i \in 1..Len(cands) |->
        IF IsSome(infer_candidate_category(cands[i].term))
        THEN [cands[i] EXCEPT !.suggested_category = infer_candidate_category(cands[i].term)]
        ELSE cands[i]]

\* run_suggest_categories(conn, top_n) for the selected rows
run_suggest_categories(cands, selected) ==
    [i \in 1..Len(cands) |->
        IF /\ i \in selected
           /\ IsSome(infer_candidate_category(cands[i].term))
           /\ (~IsSome(cands[i].suggested_category) \/ Get(cands[i].suggested_category) = "")
        THEN [cands[i] EXCEPT !.suggested_category = infer_candidate_category(cands[i].term)]
        ELSE cands[i]]

-----------------------------------------------------------------------------
(* Bounds and inputs of the harvest model *)

MaxBudget == 2   \* the attempt budgets steps * max_query_attempts of all runs sum to at most this
MaxPages  == 2   \* --pages_per_query is drawn from 1..MaxPages

\* resp.text[:5000]
ErrorTextLimit == 5000

\* A text known by its content id and its length; Prefix is text[:n]
Text(id, len) == [id |-> id, len |-> len]
Prefix(text, n) == [text EXCEPT !.len = IF text.len < n THEN text.len ELSE n]

\* rng.random() as hundredths: DMI, DHI and DL
RandomDraws == {0, 90, 99}
\* rng.choice() of the bait: index 5 of the fourteen baits is "cuda"
ChoiceDraws == {5}

\* the draws of one make_random_query call: the recipe type varies, the
\* keyword picks are one low and one high draw
Draws == [rtype : RandomDraws, dom : {0}, intent : {99}, method : {0}, hpc : {99},
          bait : ChoiceDraws]

NoFilters == [min_stars |-> None, max_stars |-> None, min_forks |-> None, max_forks |-> None,
              min_followers |-> None, max_followers |-> None,
              min_topics |-> None, max_topics |-> None]

\* the qualifier bounds a run is started with: a valid bound, min > max
FilterChoices ==
    { [NoFilters EXCEPT !.min_stars = Some(1)],
      [NoFilters EXCEPT !.min_forks = Some(2), !.max_forks = Some(1)] }

\* items of a search response
ItemA == [kind |-> "dict", full_name |-> Some("a/b"), html_url |-> Some("h1"), url |-> Some("u1"),
          description |-> None, topics |-> << <<" ", "C", "F", "D">> >>]
ItemA2 == [kind |-> "dict", full_name |-> Some("a/b"), html_url |-> Some("h2"), url |-> Some("u2"),
           description |-> Some(<<"f", "e", "m">>), topics |-> << <<"m", "e", "s", "h">>, <<" ">> >>]
ItemNoName == [kind |-> "dict", full_name |-> None, html_url |-> None, url |-> None,
               description |-> None, topics |-> <<>>]
ItemNotDict == [kind |-> "other"]

PageItems == { <<>>, <<ItemA>>, <<ItemA, ItemNotDict>> }

\* what search_repositories can return: a non-success status with a long
\* body, a 200 whose body is no JSON, a 200 with a page of items
SearchResponses ==
    { [status |-> 403, text |-> Text("forbidden", 6000), json |-> None],
      [status |-> 200, text |-> Text("html", 100), json |-> None] }
    \cup { [status |-> 200, text |-> Text("page", 100),
            json |-> Some([total_count |-> 7, items |-> its])] : its \in PageItems }

-----------------------------------------------------------------------------
(* The harvest process *)

NoCur == [query |-> <<>>, qid |-> 0, hit_tags |-> EmptyDict, page |-> 0, total_count |-> None]

\* no run_harvest call has been made
NoRun ==
    /\ pc = "idle"
    /\ run = [steps |-> 0, max_query_attempts |-> 0, pages_per_query |-> 0, filters |-> NoFilters]
    /\ executed_steps = 0
    /\ attempts = 0
    /\ cur = NoCur
    /\ resp = None
    /\ items = <<>>
    /\ exc = "none"
    /\ upstream = [sent |-> {}, since_sleep |-> 0]
    /\ proc = <<>>

\* db_connect on a new file: the schema is created and the tables are empty
Init ==
    /\ keywords = <<>>
    /\ queries = <<>>
    /\ repos = [n \in {} |-> <<>>]
    /\ repo_hits = <<>>
    /\ keyword_candidates = <<>>
    /\ clock = 1
    /\ NoRun
    /\ pin = <<>>

harvest_locals == <<pc, run, executed_steps, attempts, cur, resp, items, exc, upstream, proc>>

store == <<keywords, queries, repos, repo_hits, keyword_candidates>>

\* cmd_harvest: connect, seed the keywords, call run_harvest
StartRun(steps, max_query_attempts, pages_per_query, filters) ==
    /\ pc \in {"idle", "done", "raised"}
    /\ (clock - 1) + steps * max_query_attempts <= MaxBudget
    /\ keywords' = db_seed_keywords(keywords)
    /\ run' = [steps |-> steps, max_query_attempts |-> max_query_attempts,
               pages_per_query |-> pages_per_query, filters |-> filters]
    /\ executed_steps' = 0
    /\ attempts' = 0
    /\ cur' = NoCur
    /\ resp' = None
    /\ items' = <<>>
    /\ exc' = "none"
    /\ upstream' = [upstream EXCEPT !.since_sleep = 0]
    /\ pc' = "while"
    /\ UNCHANGED <<queries, repos, repo_hits, clock, pin, proc, keyword_candidates>>

\* a loop condition that allows one attempt per step
LoopCondOneAttemptPerStep == executed_steps < run.steps /\ attempts < run.steps

\* a loop condition without the attempt budget
LoopCondStepsOnly == executed_steps < run.steps

\* while executed_steps < steps and attempts < (steps * max_query_attempts)
LoopCond ==
    executed_steps < run.steps /\ attempts < run.steps * run.max_query_attempts

\* the loop condition is false: the run returns
WhileExit ==
    /\ pc = "while"
    /\ ~LoopCond
    /\ pc' = "done"
    /\ UNCHANGED <<keywords, queries, repos, repo_hits, clock, run, executed_steps,
                   attempts, cur, resp, items, exc, upstream, pin, proc, keyword_candidates>>

\* one pass through the top of the loop body: draw, qualify, insert, test
\* the cache
Draw(d) ==
    /\ pc = "while"
    /\ LoopCond
    /\ attempts' = attempts + 1
    /\ clock' = clock + 1
    /\ LET made == make_random_query(keywords, d)
       IN  IF made.raised # "none"
           THEN /\ pc' = "raised"
                /\ exc' = made.raised
                /\ UNCHANGED <<queries, cur>>
           ELSE LET filtered == apply_repo_filters_to_query(made.query, run.filters)
                IN  IF filtered.raised # "none"
                    THEN /\ pc' = "raised"
                         /\ exc' = filtered.raised
                         /\ UNCHANGED <<queries, cur>>
                    ELSE LET ins == db_insert_query_if_new(queries, filtered.query, made.recipe)
                         IN  /\ queries' = ins.queries
                             /\ exc' = "none"
                             /\ IF db_query_is_executed(ins.queries, ins.id)
                                THEN pc' = "while" /\ UNCHANGED cur
                                ELSE /\ cur' = [query |-> filtered.query, qid |-> ins.id,
                                                hit_tags |-> made.hit_tags, page |-> 1,
                                                total_count |-> None]
                                     /\ pc' = IF run.pages_per_query >= 1
                                              THEN "request" ELSE "after_for"
    /\ UNCHANGED <<keywords, repos, repo_hits, run, executed_steps, resp, items,
                   upstream, pin, proc, keyword_candidates>>

\* what the search API has seen: the request of this iteration for this page
Sent == [query |-> cur.query, page |-> cur.page, at |-> clock]

\* client.search_repositories(...) returns a response
SendRequest(r) ==
    /\ pc = "request"
    /\ upstream' = [sent |-> upstream.sent \cup {Sent}, since_sleep |-> upstream.since_sleep + 1]
    /\ resp' = Some(r)
    /\ pc' = "throttle"
    /\ UNCHANGED <<keywords, queries, repos, repo_hits, clock, run, executed_steps,
                   attempts, cur, items, exc, pin, proc, keyword_candidates>>

\* client.search_repositories(...) raises: a timeout, a connection failure
RequestRaises ==
    /\ pc = "request"
    /\ upstream' = [sent |-> upstream.sent \cup {Sent}, since_sleep |-> upstream.since_sleep + 1]
    /\ exc' = "Timeout"
    /\ pc' = "except"
    /\ UNCHANGED <<keywords, queries, repos, repo_hits, clock, run, executed_steps,
                   attempts, cur, resp, items, pin, proc, keyword_candidates>>

\* maybe_sleep_from_rate_limit(resp): every branch sleeps
Throttle ==
    /\ pc = "throttle"
    /\ upstream' = [upstream EXCEPT !.since_sleep = 0]
    /\ pc' = "response"
    /\ UNCHANGED <<keywords, queries, repos, repo_hits, clock, run, executed_steps,
                   attempts, cur, resp, items, exc, pin, proc, keyword_candidates>>

\* the body of the page loop after the sleep, up to the item loop
HandleResponse ==
    /\ pc = "response"
    /\ LET r == Get(resp)
       IN  IF r.status # 200
           THEN /\ queries' = db_mark_query_executed(queries, cur.qid, clock, r.status, None,
                                                     Some(Prefix(r.text, ErrorTextLimit)))
                /\ pc' = "after_for"
                /\ UNCHANGED <<cur, items, exc>>
           ELSE IF ~IsSome(r.json)
           THEN /\ exc' = "JSONDecodeError"
                /\ pc' = "except"
                /\ UNCHANGED <<queries, cur, items>>
           ELSE /\ cur' = [cur EXCEPT !.total_count =
                              IF IsSome(@) THEN @ ELSE Some(Get(r.json).total_count)]
                /\ IF Get(r.json).items = <<>>
                   THEN pc' = "after_for" /\ UNCHANGED items
                   ELSE pc' = "merge" /\ items' = Get(r.json).items
                /\ UNCHANGED <<queries, exc>>
    /\ UNCHANGED <<keywords, repos, repo_hits, clock, run, executed_steps, attempts,
                   resp, upstream, pin, proc, keyword_candidates>>

\* one pass of "for item in items", and the end of the page after the last
MergeItem ==
    /\ pc = "merge"
    /\ LET up == db_upsert_repo_and_hit(repos, repo_hits, cur.qid, Head(items),
                                        cur.hit_tags, clock)
       IN  IF up.raised # "none"
           THEN /\ exc' = up.raised
                /\ pc' = "except"
                /\ UNCHANGED <<repos, repo_hits, items, cur>>
           ELSE /\ repos' = up.repos
                /\ repo_hits' = up.repo_hits
                /\ items' = Tail(items)
                /\ IF Tail(items) # <<>>
                   THEN pc' = "merge" /\ UNCHANGED cur
                   ELSE /\ cur' = [cur EXCEPT !.page = @ + 1]
                        /\ pc' = IF cur.page + 1 <= run.pages_per_query
                                 THEN "request" ELSE "after_for"
                /\ UNCHANGED exc
    /\ UNCHANGED <<keywords, queries, clock, run, executed_steps, attempts, resp,
                   upstream, pin, proc, keyword_candidates>>

\* after the page loop, however it ended
AfterFor ==
    /\ pc = "after_for"
    /\ queries' = db_mark_query_executed(queries, cur.qid, clock, 200, cur.total_count, None)
    /\ executed_steps' = executed_steps + 1
    /\ pc' = "while"
    /\ UNCHANGED <<keywords, repos, repo_hits, clock, run, attempts, cur, resp, items,
                   exc, upstream, pin, proc, keyword_candidates>>

\* a handler that lets the exception out of run_harvest
ExceptReraises ==
    /\ pc = "except"
    /\ pc' = "raised"
    /\ UNCHANGED <<keywords, queries, repos, repo_hits, clock, run, executed_steps, attempts,
                   cur, resp, items, exc, upstream, pin, proc, keyword_candidates>>

\* except Exception as e
Except ==
    /\ pc = "except"
    /\ queries' = db_mark_query_executed(queries, cur.qid, clock, 0, cur.total_count,
                                         Some(Text(exc, 20)))
    /\ pc' = "while"
    /\ UNCHANGED <<keywords, repos, repo_hits, clock, run, executed_steps, attempts, cur,
                   resp, items, exc, upstream, pin, proc, keyword_candidates>>

\* the steps of run_harvest
RunStep ==
    \/ WhileExit
    \/ \E d \in Draws : Draw(d)
    \/ \E r \in SearchResponses : SendRequest(r)
    \/ RequestRaises
    \/ Throttle
    \/ HandleResponse
    \/ MergeItem
    \/ AfterFor
    \/ Except

Next ==
    \/ \E s \in 0..MaxBudget, a \in 1..MaxBudget, p \in 1..MaxPages, f \in FilterChoices :
          StartRun(s, a, p, f)
    \/ RunStep

Spec == Init /\ [][Next]_vars


-----------------------------------------------------------------------------
(* The query cache operations, called in any order: SpecCache *)

MaxCacheCalls == 3

di == <<"c", "f", "d", " ", "s", "o", "l", "v", "e", "r">>
mi == <<"f", "e", "m", " ", "s", "o", "l", "v", "e", "r">>

CacheQueries == {di, mi}
CacheRecipes == { [type |-> "DI", bait |-> None, keywords |-> <<>>],
                  [type |-> "DHI", bait |-> None, keywords |-> <<>>] }
\* status, total_count, error as run_harvest passes them
CacheMarks == { <<200, Some(7), None>>, <<403, None, Some(Text("forbidden", 5000))>> }

\* a call of db_insert_query_if_new; pin records the call and what it returned
InsertQuery(query, recipe) ==
    /\ clock <= MaxCacheCalls
    /\ clock' = clock + 1
    /\ LET ins == db_insert_query_if_new(queries, query, recipe)
       IN  /\ queries' = ins.queries
           /\ pin' = [op |-> "db_insert_query_if_new", query |-> query, recipe |-> recipe,
                      returned |-> ins.id]
    /\ UNCHANGED <<keywords, repos, repo_hits, harvest_locals, keyword_candidates>>

\* a call of db_mark_query_executed on a row of the table
MarkExecuted(query_id, mark) ==
    /\ clock <= MaxCacheCalls
    /\ clock' = clock + 1
    /\ query_id \in 1..Len(queries)
    /\ queries' = db_mark_query_executed(queries, query_id, clock, mark[1], mark[2], mark[3])
    /\ pin' = [op |-> "db_mark_query_executed", query_id |-> query_id]
    /\ UNCHANGED <<keywords, repos, repo_hits, harvest_locals, keyword_candidates>>

NextCache ==
    \/ \E q \in CacheQueries, r \in CacheRecipes : InsertQuery(q, r)
    \/ \E i \in 1..MaxCacheCalls, m \in CacheMarks : MarkExecuted(i, m)

SpecCache == Init /\ [][NextCache]_vars

-----------------------------------------------------------------------------
(* db_upsert_repo_and_hit called any number of times: SpecUpsert *)

MaxUpserts == 3

UpsertItems == {ItemA, ItemA2, ItemNoName, ItemNotDict}
UpsertHitTags == { ("domain" :> cfd), ("method" :> fem),
                   ("domain" :> cuda) @@ ("method" :> fem) }

\* two queries are in the cache, as after two passes of the harvest loop
InitUpsert ==
    /\ keywords = <<>>
    /\ queries = db_insert_query_if_new(
                     db_insert_query_if_new(<<>>, di, [type |-> "DI", bait |-> None,
                                                       keywords |-> <<>>]).queries,
                     mi, [type |-> "MI", bait |-> None, keywords |-> <<>>]).queries
    /\ repos = [n \in {} |-> <<>>]
    /\ repo_hits = <<>>
    /\ keyword_candidates = <<>>
    /\ clock = 1
    /\ NoRun
    /\ pin = <<>>

\* a call of db_upsert_repo_and_hit; pin records the call and whether it raised
Upsert(query_id, repo_item, hit_tags) ==
    /\ clock <= MaxUpserts
    /\ clock' = clock + 1
    /\ query_id \in 1..Len(queries)
    /\ LET up == db_upsert_repo_and_hit(repos, repo_hits, query_id, repo_item, hit_tags, clock)
       IN  /\ repos' = up.repos
           /\ repo_hits' = up.repo_hits
           /\ pin' = [op |-> "db_upsert_repo_and_hit", query_id |-> query_id,
                      repo_item |-> repo_item, hit_tags |-> hit_tags, raised |-> up.raised]
    /\ UNCHANGED <<keywords, queries, harvest_locals, keyword_candidates>>

NextUpsert == \E i \in 1..2, it \in UpsertItems, h \in UpsertHitTags : Upsert(i, it, h)

SpecUpsert == InitUpsert /\ [][NextUpsert]_vars

-----------------------------------------------------------------------------
(* merge_repo_tags on drawn arguments: SpecMerge *)

MergeTerms == {cfd, fem, cuda}
MergeCategories == {"domain", "method"}

\* hit_tags: one term for each category of a set of categories
MergeHitTags == UNION {[cs -> MergeTerms] : cs \in SUBSET MergeCategories}

\* lists a stored merged_tags may hold for a category, and two it may not
\* (unsorted, with a duplicate)
MergeLists == {<<cfd>>, <<cfd, fem>>, <<fem, cfd>>, <<cuda, cuda>>}
MergeExisting == UNION {[cs -> MergeLists] : cs \in SUBSET MergeCategories}

InitMerge ==
    /\ keywords = <<>>
    /\ queries = <<>>
    /\ repos = [n \in {} |-> <<>>]
    /\ repo_hits = <<>>
    /\ keyword_candidates = <<>>
    /\ clock = 1
    /\ NoRun
    /\ pin \in [stage : {"in"}, existing : MergeExisting, h1 : MergeHitTags, h2 : MergeHitTags]

\* merge h1 once and twice, and h1 and h2 in both orders
Merge ==
    /\ pin.stage = "in"
    /\ pin' = [stage |-> "out", existing |-> pin.existing, h1 |-> pin.h1, h2 |-> pin.h2,
               once |-> merge_repo_tags(pin.existing, pin.h1),
               twice |-> merge_repo_tags(merge_repo_tags(pin.existing, pin.h1), pin.h1),
               h1_h2 |-> merge_repo_tags(merge_repo_tags(pin.existing, pin.h1), pin.h2),
               h2_h1 |-> merge_repo_tags(merge_repo_tags(pin.existing, pin.h2), pin.h1)]
    /\ UNCHANGED <<keywords, queries, repos, repo_hits, clock, harvest_locals, keyword_candidates>>

NextMerge == Merge

SpecMerge == InitMerge /\ [][NextMerge]_vars

-----------------------------------------------------------------------------
(* Two harvest processes on one store: SpecRace.  Each process has its own  *)
(* connection; a statement outside a transaction sees the last commit, and  *)
(* the statements from a write to its commit are one step (the write lock   *)
(* keeps the other process out).  Both processes run within one tick of the *)
(* clock.                                                                   *)

Procs == {1, 2}

dhi == <<"c", "f", "d", " ", "s", "o", "l", "v", "e", "r", " ", "c", "u", "d", "a">>

\* what make_random_query hands a process: DI and MI results
RaceDraws ==
    { [query |-> di, hit_tags |-> ("domain" :> cfd) @@ ("intent" :> solver),
       recipe |-> [type |-> "DI", bait |-> None, keywords |-> <<>>]],
      [query |-> mi, hit_tags |-> ("method" :> fem) @@ ("intent" :> solver),
       recipe |-> [type |-> "MI", bait |-> None, keywords |-> <<>>]] }

\* the repository a/b as the search returns it to each process
RaceItems == {ItemA, ItemA2}

\* the store after an earlier run executed a DHI query and merged a/b
RaceSeeded ==
    LET qs0 == db_insert_query_if_new(<<>>, dhi, [type |-> "DHI", bait |-> None,
                                                   keywords |-> <<>>])
        up  == db_upsert_repo_and_hit([n \in {} |-> <<>>], <<>>, qs0.id,
                   [ItemA EXCEPT !.topics = << <<"g", "p", "u">> >>],
                   ("hpc" :> cuda), 0)
    IN  [queries |-> db_mark_query_executed(qs0.queries, qs0.id, 0, 200, Some(7), None),
         repos |-> up.repos, repo_hits |-> up.repo_hits]

RaceEmpty == [queries |-> <<>>, repos |-> [n \in {} |-> <<>>], repo_hits |-> <<>>]

IdleProc == [pc |-> "while", query |-> <<>>, qid |-> 0, hit_tags |-> EmptyDict,
             item |-> None, row |-> None, exc |-> "none"]

InitRace ==
    /\ \E st \in {RaceEmpty, RaceSeeded} :
          /\ queries = st.queries
          /\ repos = st.repos
          /\ repo_hits = st.repo_hits
    /\ keyword_candidates = <<>>
    /\ keywords = db_seed_keywords(<<>>)
    /\ clock = 1
    /\ pc = "idle"
    /\ run = [steps |-> 0, max_query_attempts |-> 0, pages_per_query |-> 0, filters |-> NoFilters]
    /\ executed_steps = 0
    /\ attempts = 0
    /\ cur = NoCur
    /\ resp = None
    /\ items = <<>>
    /\ exc = "none"
    /\ upstream = [sent |-> {}, since_sleep |-> 0]
    /\ pin = <<>>
    /\ proc = [p \in Procs |-> IdleProc]

race_frame == <<keywords, keyword_candidates, clock, pc, run, executed_steps, attempts, cur, resp, items, exc, pin>>

\* run_harvest of process p: the query is drawn and inserted if new
RaceInsertQuery(p, made) ==
    /\ proc[p].pc = "while"
    /\ LET ins == db_insert_query_if_new(queries, made.query, made.recipe)
       IN  /\ queries' = ins.queries
           /\ proc' = [proc EXCEPT ![p] = [@ EXCEPT !.pc = "cache_test", !.query = made.query,
                                                    !.qid = ins.id, !.hit_tags = made.hit_tags]]
    /\ UNCHANGED <<repos, repo_hits, upstream, race_frame>>

\* if db_query_is_executed(conn, qid): continue
RaceCacheTest(p) ==
    /\ proc[p].pc = "cache_test"
    /\ proc' = [proc EXCEPT ![p].pc =
                   IF db_query_is_executed(queries, proc[p].qid) THEN "done" ELSE "request"]
    /\ UNCHANGED <<queries, repos, repo_hits, upstream, race_frame>>

\* the page request of process p, answered with one item
RaceRequest(p, item) ==
    /\ proc[p].pc = "request"
    /\ upstream' = [upstream EXCEPT !.sent = @ \cup {[query |-> proc[p].query, page |-> 1,
                                                      at |-> clock, by |-> p]}]
    /\ proc' = [proc EXCEPT ![p] = [@ EXCEPT !.pc = "select", !.item = Some(item)]]
    /\ UNCHANGED <<queries, repos, repo_hits, race_frame>>

\* db_upsert_repo_and_hit: SELECT merged_tags_json, topics_json FROM repos
RaceSelect(p) ==
    /\ proc[p].pc = "select"
    /\ LET full_name == Get(Get(proc[p].item).full_name)
       IN  proc' = [proc EXCEPT ![p] = [@ EXCEPT !.pc = "write", !.row =
                       IF full_name \in DOMAIN repos
                       THEN Some([merged_tags_json |-> repos[full_name].merged_tags_json,
                                  topics_json |-> repos[full_name].topics_json])
                       ELSE None]]
    /\ UNCHANGED <<queries, repos, repo_hits, upstream, race_frame>>

\* The UPDATE or INSERT of db_upsert_repo_and_hit computed from the row the
\* SELECT returned: [raised, repos].  INSERT of a full_name that has a row
\* by now fails on the primary key.
UpsertRepoRowFrom(rs, row, repo_item, hit_tags, now) ==
    LET full_name == Get(repo_item.full_name)
        incoming_topics == IncomingTopics(repo_item)
    IN  IF IsSome(row)
        THEN LET existing_tags   == _load_json(Get(row).merged_tags_json, EmptyDict)
                 existing_topics == _load_json(Get(row).topics_json, <<>>)
                 merged_tags     == merge_repo_tags(existing_tags, hit_tags)
                 merged_topics   == merged_topics_of(existing_topics, incoming_topics)
             IN  [raised |-> "none",
                  repos |-> [rs EXCEPT ![full_name] =
                     [@ EXCEPT !.html_url = repo_item.html_url,
                               !.api_url = repo_item.url,
                               !.description = repo_item.description,
                               !.last_seen_at = now,
                               !.repo_json = Some(JsonDumps(repo_item)),
                               !.topics_json = Some(JsonDumps(merged_topics)),
                               !.merged_tags_json = Some(JsonDumps(merged_tags))]]]
        ELSE IF full_name \in DOMAIN rs
        THEN [raised |-> "IntegrityError", repos |-> rs]
        ELSE [raised |-> "none", repos |-> UpsertRepoRow(rs, repo_item, hit_tags, now)]

\* db_upsert_repo_and_hit from the UPDATE or INSERT to the commit
RaceWrite(p) ==
    /\ proc[p].pc = "write"
    /\ LET item == Get(proc[p].item)
           up   == UpsertRepoRowFrom(repos, proc[p].row, item, proc[p].hit_tags, clock)
       IN  IF up.raised # "none"
           THEN /\ proc' = [proc EXCEPT ![p] = [@ EXCEPT !.pc = "except", !.exc = up.raised]]
                /\ UNCHANGED <<repos, repo_hits>>
           ELSE /\ repos' = up.repos
                /\ repo_hits' = InsertRepoHit(repo_hits, proc[p].qid, Get(item.full_name),
                                              clock, proc[p].hit_tags)
                /\ proc' = [proc EXCEPT ![p].pc = "after_for"]
    /\ UNCHANGED <<queries, upstream, race_frame>>

\* db_mark_query_executed after the page loop, or in the exception handler
RaceMark(p) ==
    /\ proc[p].pc \in {"after_for", "except"}
    /\ queries' = IF proc[p].pc = "after_for"
                  THEN db_mark_query_executed(queries, proc[p].qid, clock, 200, Some(7), None)
                  ELSE db_mark_query_executed(queries, proc[p].qid, clock, 0, Some(7),
                                              Some(Text(proc[p].exc, 20)))
    /\ proc' = [proc EXCEPT ![p].pc = "done"]
    /\ UNCHANGED <<repos, repo_hits, upstream, race_frame>>

NextRace ==
    \E p \in Procs :
        \/ \E made \in RaceDraws : RaceInsertQuery(p, made)
        \/ RaceCacheTest(p)
        \/ \E item \in RaceItems : RaceRequest(p, item)
        \/ RaceSelect(p)
        \/ RaceWrite(p)
        \/ RaceMark(p)

SpecRace == InitRace /\ [][NextRace]_vars

-----------------------------------------------------------------------------
(* weighted_choice and pick on drawn rows and draws: SpecPick *)

MaxRows == 3    \* the longest list of rows picked from

\* weights in hundredths: 0, 0.5, 1.0
PickWeights == {0, 50, 100}

\* the non-empty weight lists and every hundredth of [0, 1)
InitPick ==
    /\ keywords = <<>>
    /\ queries = <<>>
    /\ repos = [n \in {} |-> <<>>]
    /\ repo_hits = <<>>
    /\ keyword_candidates = <<>>
    /\ clock = 1
    /\ NoRun
    /\ pin \in [stage : {"in"}, d : 0..99,
                weights : UNION {[1..n -> PickWeights] : n \in 1..MaxRows}]

\* both pickers on rows numbered 1..n with the drawn weights; the result is
\* the number of the row returned
Pick ==
    /\ pin.stage = "in"
    /\ LET n == Len(pin.weights)
       IN  pin' = [stage |-> "out", d |-> pin.d, weights |-> pin.weights,
                   chosen |-> weighted_choice([i \in 1..n |-> <<i, pin.weights[i]>>], pin.d),
                   picked |-> pick([i \in 1..n |-> [id |-> i, weight |-> pin.weights[i]]],
                                   pin.d).id]
    /\ UNCHANGED <<keywords, queries, repos, repo_hits, clock, harvest_locals, keyword_candidates>>

SpecPick == InitPick /\ [][Pick]_vars

-----------------------------------------------------------------------------
(* make_random_query on drawn keyword tables and draws: SpecCompose *)

\* one active keyword per category: domain cfd, method fem, intent solver
ScenarioKeywords ==
    << <<"domain", cfd, 100, "manual">>,
       <<"method", fem, 100, "manual">>,
       <<"intent", solver, 100, "manual">> >>

\* further rows a table may hold
ExtraKeywords ==
    << <<"domain", <<"f", "s", "i">>, 50, "auto">>,
       <<"method", <<"f", "v", "m">>, 100, "auto">>,
       <<"intent", <<"m", "e", "s", "h">>, 40, "auto">>,
       <<"hpc", cuda, 50, "manual">>,
       <<"hpc", <<"m", "p", "i">>, 100, "manual">> >>

\* rng.random() for the recipe type: DMI, DI, MI, DHI, DL
ComposeTypeDraws == {0, 50, 80, 90, 99}

ComposeDraws == [rtype : ComposeTypeDraws, dom : {0, 99}, intent : {0, 99}, method : {0, 99},
                 hpc : {0, 99}, bait : {0, 5, 13}]

InitCompose ==
    /\ \E extra \in SUBSET Range(ExtraKeywords) :
          keywords = SeedFrom(<<>>, ScenarioKeywords
                                    \o SelectSeq(ExtraKeywords, LAMBDA r : r \in extra))
    /\ queries = <<>>
    /\ repos = [n \in {} |-> <<>>]
    /\ repo_hits = <<>>
    /\ keyword_candidates = <<>>
    /\ clock = 1
    /\ NoRun
    /\ pin \in [stage : {"in"}, d : ComposeDraws]

\* a call of make_random_query
Compose ==
    /\ pin.stage = "in"
    /\ pin' = [stage |-> "out", d |-> pin.d, made |-> make_random_query(keywords, pin.d)]
    /\ UNCHANGED <<keywords, queries, repos, repo_hits, clock, harvest_locals, keyword_candidates>>

SpecCompose == InitCompose /\ [][Compose]_vars

-----------------------------------------------------------------------------
(* make_random_query on tables that hold paused keywords: SpecPaused *)

\* The schema documents two values of keywords.status, active and paused.  No
\* command writes paused: a maintainer sets it in the database.  Every row of
\* the full table may have been paused.
FullTable == SeedFrom(<<>>, ScenarioKeywords \o ExtraKeywords)

PausedDraws == [rtype : ComposeTypeDraws, dom : {0, 99}, intent : {0, 99}, method : {0, 99},
                hpc : {0, 99}, bait : {5}]

InitPaused ==
    /\ \E paused \in SUBSET (1..Len(FullTable)) :
          keywords = [i \in 1..Len(FullTable) |->
                         IF i \in paused THEN [FullTable[i] EXCEPT !.status = "paused"]
                         ELSE FullTable[i]]
    /\ queries = <<>>
    /\ repos = [n \in {} |-> <<>>]
    /\ repo_hits = <<>>
    /\ keyword_candidates = <<>>
    /\ clock = 1
    /\ NoRun
    /\ pin \in [stage : {"in"}, d : PausedDraws]

SpecPaused == InitPaused /\ [][Compose]_vars

-----------------------------------------------------------------------------
(* The numeric qualifiers on drawn bounds: SpecQualifier *)

MaxBound == 2   \* the stars bounds are drawn from -1..MaxBound, or omitted

QualifierBounds == {None} \cup {Some(n) : n \in -1..MaxBound}

\* <<min, max>> of the other three qualifiers: omitted, one-sided, equal,
\* min > max
OtherBounds ==
    { <<None, None>>, <<Some(1), None>>, <<None, Some(10)>>, <<Some(2), Some(2)>>,
      <<Some(2), Some(1)>> }

QualifierInputs ==
    { [min_stars |-> a, max_stars |-> b, min_forks |-> fo[1], max_forks |-> fo[2],
       min_followers |-> fl[1], max_followers |-> fl[2],
       min_topics |-> tp[1], max_topics |-> tp[2]] :
         a \in QualifierBounds, b \in QualifierBounds,
         fo \in OtherBounds, fl \in OtherBounds, tp \in OtherBounds }

InitQualifier ==
    /\ keywords = <<>>
    /\ queries = <<>>
    /\ repos = [n \in {} |-> <<>>]
    /\ repo_hits = <<>>
    /\ keyword_candidates = <<>>
    /\ clock = 1
    /\ NoRun
    /\ pin \in [stage : {"in"}, base_query : {di}, f : QualifierInputs]

\* the stars qualifier alone, and the augmentation of the base query
Qualify ==
    /\ pin.stage = "in"
    /\ pin' = [stage |-> "out", base_query |-> pin.base_query, f |-> pin.f,
               built |-> _build_numeric_qualifier(name_stars, pin.f.min_stars, pin.f.max_stars),
               applied |-> apply_repo_filters_to_query(pin.base_query, pin.f)]
    /\ UNCHANGED <<keywords, queries, repos, repo_hits, clock, harvest_locals, keyword_candidates>>

SpecQualifier == InitQualifier /\ [][Qualify]_vars

-----------------------------------------------------------------------------
(* db_add_candidate called as run_extract_candidates calls it: SpecCandidate *)

MaxObservations == 4   \* calls of db_add_candidate

mesh == <<"m", "e", "s", "h">>
gpu  == <<"g", "p", "u">>

ObservedTerms == {mesh, gpu}

\* field and score_inc of the two call sites of run_extract_candidates
Observations == { <<"description", Float03>>, <<"topic", Float10>> }

\* pin counts, for every term, the observations through each field
InitCandidate ==
    /\ keywords = <<>>
    /\ queries = <<>>
    /\ repos = [n \in {} |-> <<>>]
    /\ repo_hits = <<>>
    /\ keyword_candidates = <<>>
    /\ clock = 1
    /\ NoRun
    /\ pin = [x \in ObservedTerms |-> [topic |-> 0, description |-> 0]]

AddCandidate(term, obs) ==
    /\ clock <= MaxObservations
    /\ clock' = clock + 1
    /\ keyword_candidates' = db_add_candidate(keyword_candidates, term, obs[1], "a/b", obs[2], clock)
    /\ pin' = [pin EXCEPT ![term][obs[1]] = @ + 1]
    /\ UNCHANGED <<keywords, queries, repos, repo_hits, harvest_locals>>

NextCandidate == \E term \in ObservedTerms, obs \in Observations : AddCandidate(term, obs)

SpecCandidate == InitCandidate /\ [][NextCandidate]_vars

-----------------------------------------------------------------------------
(* Observations of a candidate near the cap of its sources: SpecCap *)

\* the candidate table after n description observations of mesh
RECURSIVE ObservedTimes(_)
ObservedTimes(n) ==
    IF n = 0 THEN <<>>
    ELSE db_add_candidate(ObservedTimes(n - 1), mesh, "description", "a/b", Float03, 0)

\* mesh has been observed 28, 29 or 30 times
InitCap ==
    /\ keywords = <<>>
    /\ queries = <<>>
    /\ repos = [n \in {} |-> <<>>]
    /\ repo_hits = <<>>
    /\ \E n \in (MaxSources - 2)..MaxSources :
           /\ keyword_candidates = ObservedTimes(n)
           /\ pin = [x \in ObservedTerms |->
                        [topic |-> 0, description |-> IF x = mesh THEN n ELSE 0]]
    /\ clock = 1
    /\ NoRun

SpecCap == InitCap /\ [][NextCandidate]_vars

-----------------------------------------------------------------------------
(* Seeding, promotion and extraction on one database: SpecMine *)

MaxMineOps == 3   \* commands run on the database

\* "XFEM-2d GPU mesh. 123 tests for cf"
MeshDescription ==
    <<"X", "F", "E", "M", "-", "2", "d", " ", "G", "P", "U", " ", "m", "e", "s", "h", ".", " ", "1", "2", "3", " ", "t", "e", "s", "t", "s", " ", "f", "o", "r", " ", "c", "f">>

ItemMesh == [kind |-> "dict", full_name |-> Some("a/b"), html_url |-> Some("h1"),
             url |-> Some("u1"), description |-> Some(MeshDescription),
             topics |-> << <<"M", "e", "s", "h">>, <<" ", "G", "P", "U">> >>]
ItemCfd  == [kind |-> "dict", full_name |-> Some("c/d"), html_url |-> Some("h3"),
             url |-> Some("u3"), description |-> None,
             topics |-> << <<"c", "f">>, <<" ", "C", "F", "D">>, <<"S", "o", "l", "v", "e", "r">>,
                         <<"2", "0", "2", "4">> >>]

\* the repos table after one or two repositories were harvested
MineRepos ==
    { UpsertRepoRow([n \in {} |-> <<>>], ItemMesh, ("domain" :> cfd), 1),
      UpsertRepoRow(UpsertRepoRow([n \in {} |-> <<>>], ItemMesh, ("domain" :> cfd), 1),
                    ItemCfd, ("method" :> fem), 2) }

\* the term, --category and --weight arguments of promote: a missing term,
\* a missing category, a term with capitals and outer whitespace in two
\* categories, a seeded term, a blank term, a negative weight
PromoteArgs ==
    { [term |-> None, category |-> Some("domain"), weight |-> Some(DefaultWeight)],
      [term |-> Some(<<" ", "M", "e", "s", "h", " ">>), category |-> None, weight |-> Some(DefaultWeight)],
      [term |-> Some(<<" ", "M", "e", "s", "h", " ">>), category |-> Some("domain"), weight |-> Some(DefaultWeight)],
      [term |-> Some(<<" ", "M", "e", "s", "h", " ">>), category |-> Some("method"), weight |-> Some(DefaultWeight)],
      [term |-> Some(<<"f", "e", "m">>), category |-> Some("method"), weight |-> Some(DefaultWeight)],
      [term |-> Some(<<" ">>), category |-> Some("domain"), weight |-> Some(DefaultWeight)],
      [term |-> Some(<<"g", "p", "u">>), category |-> Some("hpc"), weight |-> Some(0 - 50)] }

\* rows of a CSV file: without category, with a term that differs from a
\* seed in case and whitespace, with a weight that is no number, with a
\* blank category, with the weights -0.5 and nan
RowGpu ==
    [term |-> Some(<<"G", "P", "U", " ">>), category |-> None, suggested_category |-> Some("hpc"),
     weight |-> Some(<<"0", ".", "7">>)]
RowCfd ==
    [term |-> Some(<<" ", "C", "F", "D">>), category |-> Some("domain"), suggested_category |-> None,
     weight |-> None]
RowBadWeight ==
    [term |-> Some(<<"m", "e", "s", "h">>), category |-> Some("method"), suggested_category |-> None,
     weight |-> Some(<<"x">>)]
RowBlankCategory ==
    [term |-> Some(<<"m", "e", "s", "h">>), category |-> Some(" "), suggested_category |-> None,
     weight |-> None]
RowNegativeWeight ==
    [term |-> Some(<<"m", "e", "s", "h">>), category |-> Some("domain"), suggested_category |-> None,
     weight |-> Some(<<"-", "0", ".", "5">>)]
RowNanWeight ==
    [term |-> Some(<<"m", "e", "s", "h">>), category |-> Some("method"), suggested_category |-> None,
     weight |-> Some(<<"n", "a", "n">>)]

\* files of one row, of the same row twice, and of rows after a row that is
\* skipped
CsvFiles ==
    { <<RowGpu>>, <<RowCfd>>, <<RowBlankCategory>>, <<RowNegativeWeight>>, <<RowNanWeight>>,
      <<RowCfd, RowCfd>>,
      <<RowBadWeight, [RowGpu EXCEPT !.term = None], RowGpu>> }

InitMine ==
    /\ keywords = <<>>
    /\ queries = <<>>
    /\ repos \in MineRepos
    /\ repo_hits = <<>>
    /\ keyword_candidates = <<>>
    /\ clock = 1
    /\ NoRun
    /\ pin = [op |-> "none"]

mine_frame == <<queries, repos, repo_hits, harvest_locals>>

\* cmd_init on an existing database
MineInit ==
    /\ clock <= MaxMineOps
    /\ clock' = clock + 1
    /\ keywords' = db_seed_keywords(keywords)
    /\ pin' = [op |-> "cmd_init"]
    /\ UNCHANGED <<keyword_candidates, mine_frame>>

\* cmd_promote with a term
PromoteSingle(term, category, weight) ==
    /\ clock <= MaxMineOps
    /\ clock' = clock + 1
    /\ LET done == cmd_promote_single(keywords, keyword_candidates, term, category, weight)
       IN  /\ keywords' = done.keywords
           /\ keyword_candidates' = done.keyword_candidates
           /\ pin' = [op |-> "cmd_promote", term |-> term, category |-> category,
                      weight |-> weight, outcome |-> done.outcome]
    /\ UNCHANGED mine_frame

\* cmd_promote --csv
PromoteBatch(rows, args_category) ==
    /\ clock <= MaxMineOps
    /\ clock' = clock + 1
    /\ LET done == PromoteRows(keywords, keyword_candidates, rows, args_category, NoTally)
       IN  /\ keywords' = done.keywords
           /\ keyword_candidates' = done.keyword_candidates
           /\ pin' = [op |-> "cmd_promote_csv", rows |-> rows,
                      args_category |-> args_category, tally |-> done.tally]
    /\ UNCHANGED mine_frame

\* an extraction that stamps the repositories it has scanned
ExtractCandidatesStampsRepos(limit_repos) ==
    /\ clock <= MaxMineOps
    /\ clock' = clock + 1
    /\ keyword_candidates' =
           run_extract_candidates(keywords, repos, keyword_candidates, limit_repos, clock)
    /\ repos' = [n \in DOMAIN repos |-> [repos[n] EXCEPT !.last_seen_at = clock]]
    /\ pin' = [op |-> "run_extract_candidates", limit_repos |-> limit_repos]
    /\ UNCHANGED <<keywords, queries, repo_hits, harvest_locals>>

\* run_extract_candidates
ExtractCandidates(limit_repos) ==
    /\ clock <= MaxMineOps
    /\ clock' = clock + 1
    /\ keyword_candidates' =
           run_extract_candidates(keywords, repos, keyword_candidates, limit_repos, clock)
    /\ pin' = [op |-> "run_extract_candidates", limit_repos |-> limit_repos]
    /\ UNCHANGED <<keywords, mine_frame>>

NextMine ==
    \/ MineInit
    \/ \E args \in PromoteArgs : PromoteSingle(args.term, args.category, args.weight)
    \/ \E rows \in CsvFiles : PromoteBatch(rows, None)
    \/ \E limit_repos \in 1..2 : ExtractCandidates(limit_repos)

SpecMine == InitMine /\ [][NextMine]_vars

-----------------------------------------------------------------------------
(* The candidate review flow: SpecReview *)

\* run_suggest_categories
SuggestCategories(top_n) ==
    /\ clock <= MaxMineOps
    /\ clock' = clock + 1
    /\ \E selected \in TopPending(keyword_candidates, top_n) :
           keyword_candidates' = run_suggest_categories(keyword_candidates, selected)
    /\ pin' = [op |-> "run_suggest_categories", top_n |-> top_n]
    /\ UNCHANGED <<keywords, mine_frame>>

\* The reviewer rejects a pending candidate: the status 'rejected' of the
\* schema, which no command of the program writes
RejectCandidate(i) ==
    /\ clock <= MaxMineOps
    /\ clock' = clock + 1
    /\ i \in 1..Len(keyword_candidates)
    /\ keyword_candidates[i].status = "pending"
    /\ keyword_candidates' = [keyword_candidates EXCEPT ![i].status = "rejected"]
    /\ pin' = [op |-> "reject", term |-> keyword_candidates[i].term]
    /\ UNCHANGED <<keywords, mine_frame>>

NextReview ==
    \/ NextMine
    \/ \E top_n \in 1..2 : SuggestCategories(top_n)
    \/ \E i \in 1..2 : RejectCandidate(i)

SpecReview == InitMine /\ [][NextReview]_vars

-----------------------------------------------------------------------------
(* Runs that are terminated and started again: SpecResume *)

\* the responses of the resumed runs: a non-success status, a page of one
\* item, a page with an item that has no full_name before one that has
ResumeResponses ==
    { [status |-> 403, text |-> Text("forbidden", 6000), json |-> None],
      [status |-> 200, text |-> Text("page", 100),
       json |-> Some([total_count |-> 7, items |-> <<ItemA>>])],
      [status |-> 200, text |-> Text("page", 100),
       json |-> Some([total_count |-> 7, items |-> <<ItemNoName, ItemA2>>])] }

\* The process is killed between two statements: its locals are gone, the
\* database keeps what was committed (every db_* function commits before
\* it returns)
Terminate ==
    /\ pc \notin {"idle", "done", "raised"}
    /\ pc' = "idle"
    /\ run' = [steps |-> 0, max_query_attempts |-> 0, pages_per_query |-> 0,
               filters |-> NoFilters]
    /\ executed_steps' = 0
    /\ attempts' = 0
    /\ cur' = NoCur
    /\ resp' = None
    /\ items' = <<>>
    /\ exc' = "none"
    /\ upstream' = [upstream EXCEPT !.since_sleep = 0]
    /\ UNCHANGED <<keywords, queries, repos, repo_hits, clock, pin, proc, keyword_candidates>>

NextResume ==
    \/ \E p \in 1..MaxPages : StartRun(1, 1, p, NoFilters)
    \/ WhileExit
    \/ \E d \in Draws : Draw(d)
    \/ \E r \in ResumeResponses : SendRequest(r)
    \/ RequestRaises
    \/ Throttle
    \/ HandleResponse
    \/ MergeItem
    \/ AfterFor
    \/ Except
    \/ Terminate

SpecResume == Init /\ [][NextResume]_vars

-----------------------------------------------------------------------------
(* Harvested items and topic enrichment in any order: SpecEnrich *)

\* an item without topics, and one of another repository
ItemBare  == [kind |-> "dict", full_name |-> Some("a/b"), html_url |-> Some("h4"),
              url |-> Some("u4"), description |-> None, topics |-> <<>>]
ItemOther == [kind |-> "dict", full_name |-> Some("c/d"), html_url |-> Some("h5"),
              url |-> Some("u5"), description |-> Some(<<"f", "e", "m">>), topics |-> <<>>]

EnrichItems == {ItemA, ItemA2, ItemBare, ItemOther}

\* responses of the detail endpoint: not found, a record with two topics, a
\* record whose topics are null
DetailResponses ==
    { [status |-> 404, json |-> None],
      [status |-> 200, json |-> Some([topics |-> Some(<< <<"g", "p", "u">>, <<"M", "e", "s", "h">> >>)])],
      [status |-> 200, json |-> Some([topics |-> None])] }

\* the repos table at the start: empty, or holding a row of a/b whose
\* topics and merged_tags columns were damaged outside the program
DamagedRow ==
    [full_name |-> "a/b", html_url |-> Some("h0"), api_url |-> Some("u0"),
     description |-> None, first_seen_at |-> 0, last_seen_at |-> 0,
     repo_json |-> Some(JsonDumps(ItemBare)),
     topics_json |-> Some(BrokenJson), merged_tags_json |-> Some(BrokenJson)]

InitEnrich ==
    /\ keywords = <<>>
    /\ queries = db_insert_query_if_new(<<>>, di, [type |-> "DI", bait |-> None,
                                                   keywords |-> <<>>]).queries
    /\ repos \in { [n \in {} |-> <<>>], ("a/b" :> DamagedRow) }
    /\ repo_hits = <<>>
    /\ keyword_candidates = <<>>
    /\ clock = 1
    /\ NoRun
    /\ pin = [op |-> "none"]

\* a run of enrich-missing-topics; pin records the targets and the responses
Enrich(limit) ==
    /\ clock <= MaxUpserts
    /\ clock' = clock + 1
    /\ \E targets \in db_get_repos_missing_topics(repos, limit) :
           \E responses \in [targets -> DetailResponses] :
               /\ repos' = run_enrich_topics(repos, targets, responses, clock)
               /\ pin' = [op |-> "run_enrich_topics", limit |-> limit, targets |-> targets,
                          responses |-> responses]
    /\ UNCHANGED <<keywords, queries, repo_hits, harvest_locals, keyword_candidates>>

NextEnrich ==
    \/ \E it \in EnrichItems, h \in {("domain" :> cfd), ("method" :> fem)} : Upsert(1, it, h)
    \/ \E limit \in 1..2 : Enrich(limit)

SpecEnrich == InitEnrich /\ [][NextEnrich]_vars

-----------------------------------------------------------------------------
(* Upserts and observations on rows with damaged JSON columns: SpecDamaged *)

\* the row of a/b with its topics, its merged_tags or both damaged
DamagedRepos ==
    { ("a/b" :> DamagedRow),
      ("a/b" :> [DamagedRow EXCEPT !.topics_json = Some(JsonDumps(<<mesh>>))]),
      ("a/b" :> [DamagedRow EXCEPT !.merged_tags_json = Some(JsonDumps(("domain" :> <<cfd>>)))]) }

\* the candidate mesh, observed once, with its sources damaged
DamagedCandidates ==
    [db_add_candidate(<<>>, mesh, "description", "a/b", Float03, 0)
        EXCEPT ![1].sources_json = Some(BrokenJson)]

InitDamaged ==
    /\ keywords = <<>>
    /\ queries = db_insert_query_if_new(<<>>, di, [type |-> "DI", bait |-> None,
                                                   keywords |-> <<>>]).queries
    /\ repos \in DamagedRepos
    /\ repo_hits = <<>>
    /\ keyword_candidates = DamagedCandidates
    /\ clock = 1
    /\ NoRun
    /\ pin = [op |-> "none"]

\* a call of db_add_candidate; pin records the call
Observe(term, obs) ==
    /\ clock <= MaxUpserts
    /\ clock' = clock + 1
    /\ keyword_candidates' = db_add_candidate(keyword_candidates, term, obs[1], "a/b", obs[2], clock)
    /\ pin' = [op |-> "db_add_candidate", term |-> term, field |-> obs[1], score_inc |-> obs[2]]
    /\ UNCHANGED <<keywords, queries, repos, repo_hits, harvest_locals>>

NextDamaged ==
    \/ \E it \in EnrichItems, h \in {("domain" :> cfd), ("method" :> fem)} : Upsert(1, it, h)
    \/ \E term \in ObservedTerms, obs \in Observations : Observe(term, obs)

SpecDamaged == InitDamaged /\ [][NextDamaged]_vars

-----------------------------------------------------------------------------
(* The commands run one after another on one database: SpecOwners *)

\* the search responses: a non-success status, a page of one repository with
\* a description and no topics
ItemMeshBare == [ItemMesh EXCEPT !.topics = <<>>]

OwnersResponses ==
    { [status |-> 403, text |-> Text("forbidden", 6000), json |-> None],
      [status |-> 200, text |-> Text("page", 100),
       json |-> Some([total_count |-> 1, items |-> <<ItemMeshBare>>])] }

InitOwners ==
    /\ keywords = <<>>
    /\ queries = <<>>
    /\ repos = [n \in {} |-> <<>>]
    /\ repo_hits = <<>>
    /\ keyword_candidates = <<>>
    /\ clock = 1
    /\ NoRun
    /\ pin = [op |-> "none"]

\* no harvest is under way: a command can be started
NoHarvest == pc \in {"idle", "done", "raised"}

NextOwners ==
    \/ StartRun(1, 1, 1, NoFilters)
    \/ WhileExit
    \/ \E d \in Draws : Draw(d)
    \/ \E r \in OwnersResponses : SendRequest(r)
    \/ RequestRaises
    \/ Throttle
    \/ HandleResponse
    \/ MergeItem
    \/ AfterFor
    \/ Except
    \/ NoHarvest /\ MineInit
    \/ NoHarvest /\ \E args \in PromoteArgs : PromoteSingle(args.term, args.category, args.weight)
    \/ NoHarvest /\ PromoteBatch(<<RowGpu>>, None)
    \/ NoHarvest /\ ExtractCandidates(2)
    \/ NoHarvest /\ SuggestCategories(2)
    \/ NoHarvest /\ Enrich(2)

SpecOwners == InitOwners /\ [][NextOwners]_vars

-----------------------------------------------------------------------------
(* run_harvest on a cache that earlier runs have filled: SpecExhausted *)

\* the draws of Draws in a fixed order
DrawSeq ==
    << [rtype |-> 0, dom |-> 0, intent |-> 99, method |-> 0, hpc |-> 99, bait |-> 5],
       [rtype |-> 90, dom |-> 0, intent |-> 99, method |-> 0, hpc |-> 99, bait |-> 5],
       [rtype |-> 99, dom |-> 0, intent |-> 99, method |-> 0, hpc |-> 99, bait |-> 5] >>

\* the queries table after earlier runs with the qualifiers f drew ds and
\* executed each query with success; the runs started here have no qualifiers,
\* and the earlier runs have executed the first or all of the producible queries
RECURSIVE ExecutedBefore(_, _, _)
ExecutedBefore(qs, ds, f) ==
    IF ds = <<>> THEN qs
    ELSE LET made == make_random_query(db_seed_keywords(<<>>), Head(ds))
             filtered == apply_repo_filters_to_query(made.query, f)
             ins == db_insert_query_if_new(qs, filtered.query, made.recipe)
         IN  ExecutedBefore(db_mark_query_executed(ins.queries, ins.id, 0, 200, Some(7), None),
                            Tail(ds), f)

InitExhausted ==
    /\ keywords = db_seed_keywords(<<>>)
    /\ \E n \in {1, Len(DrawSeq)} :
          queries = ExecutedBefore(<<>>, SubSeq(DrawSeq, 1, n), NoFilters)
    /\ repos = [n \in {} |-> <<>>]
    /\ repo_hits = <<>>
    /\ keyword_candidates = <<>>
    /\ clock = 1
    /\ NoRun
    /\ pin = <<>>

\* the steps of run_harvest, with the responses of OwnersResponses
StepExhausted ==
    \/ WhileExit
    \/ \E d \in Draws : Draw(d)
    \/ \E r \in OwnersResponses : SendRequest(r)
    \/ RequestRaises
    \/ Throttle
    \/ HandleResponse
    \/ MergeItem
    \/ AfterFor
    \/ Except

NextExhausted ==
    \/ \E s \in 1..MaxBudget, a \in 1..MaxBudget : StartRun(s, a, 1, NoFilters)
    \/ StepExhausted

\* run_harvest is sequential code: a started run takes its next step
SpecExhausted == InitExhausted /\ [][NextExhausted]_vars /\ WF_vars(StepExhausted)

-----------------------------------------------------------------------------
(* The sleep after a response: SpecSleep *)

\* int(text): surrounding whitespace is stripped, one sign is allowed, the
\* rest is one or more decimal digits (the header values used here have no
\* underscores, which int() also accepts between digits)
IntBody(text) ==
    LET s == Strip(text)
    IN  IF s # <<>> /\ s[1] \in {"+", "-"} THEN Tail(s) ELSE s

int_parses(text) ==
    /\ IntBody(text) # <<>>
    /\ \A i \in 1..Len(IntBody(text)) : IntBody(text)[i] \in Digits

RECURSIVE DigitsValue(_)
DigitsValue(d) ==
    IF d = <<>> THEN 0
    ELSE 10 * DigitsValue(SubSeq(d, 1, Len(d) - 1)) + (Ord(d[Len(d)]) - Ord("0"))

int_of(text) ==
    IF Strip(text)[1] = "-" THEN 0 - DigitsValue(IntBody(text)) ELSE DigitsValue(IntBody(text))

\* resp.headers.get(name, default)
headers_get(value, default) == IF IsSome(value) THEN Get(value) ELSE default

\* max(a, b) on integers
max(a, b) == IF a >= b THEN a ELSE b

\* the function with the minimum interval in every branch
maybe_sleep_from_rate_limit_min_only(headers, min_sleep, now) == <<min_sleep>>

\* maybe_sleep_from_rate_limit(resp, min_sleep) with int(time.time()) = now:
\* the arguments of the calls of time.sleep it makes, in tenths of a second
maybe_sleep_from_rate_limit(headers, min_sleep, now) ==
    LET remaining_text == headers_get(headers.remaining, <<"1">>)
        reset_text     == headers_get(headers.reset, <<"0">>)
    IN  IF ~int_parses(remaining_text) \/ ~int_parses(reset_text)
        THEN <<min_sleep>>
        ELSE LET remaining == int_of(remaining_text)
                 reset     == int_of(reset_text)
             IN  IF remaining <= 1 /\ reset > 0
                 THEN <<10 * max(reset - now + 2, 2)>>
                 ELSE <<min_sleep>>

MaxNow == 9   \* int(time.time()) is drawn from 0..MaxNow

\* X-RateLimit-Remaining: missing, zero, one, more, negative, padded, signed,
\* empty, not a number, not an integer
RemainingHeaders ==
    { None, Some(<<"0">>), Some(<<"1">>), Some(<<"2">>), Some(<<"5", "7">>), Some(<<"-", "1">>),
      Some(<<" ", "1", " ">>), Some(<<"+", "0">>), Some(<<>>), Some(<<"m", "a", "n", "y">>), Some(<<"1", ".", "5">>) }

\* X-RateLimit-Reset: missing, zero, negative, in the past, around now, in
\* the future, not a number
ResetHeaders ==
    { None, Some(<<"0">>), Some(<<"-", "3">>), Some(<<"5">>), Some(<<"8">>), Some(<<"1", "2">>),
      Some(<<" ", "7", " ">>), Some(<<"s", "o", "o", "n">>) }

\* --min_sleep 1.0 and 1.5, the defaults of the commands, in tenths of a second
MinSleeps == {10, 15}

InitSleep ==
    /\ keywords = <<>>
    /\ queries = <<>>
    /\ repos = [n \in {} |-> <<>>]
    /\ repo_hits = <<>>
    /\ keyword_candidates = <<>>
    /\ clock = 1
    /\ NoRun
    /\ pin \in [stage : {"in"},
                headers : [remaining : RemainingHeaders, reset : ResetHeaders],
                min_sleep : MinSleeps, now : 0..MaxNow]

Sleep ==
    /\ pin.stage = "in"
    /\ pin' = [stage |-> "out", headers |-> pin.headers, min_sleep |-> pin.min_sleep,
               now |-> pin.now,
               slept |-> maybe_sleep_from_rate_limit(pin.headers, pin.min_sleep, pin.now)]
    /\ UNCHANGED <<keywords, queries, repos, repo_hits, clock, harvest_locals, keyword_candidates>>

SpecSleep == InitSleep /\ [][Sleep]_vars

-----------------------------------------------------------------------------
(* Claims about the harvest loop, checked under Spec *)

\* the row of a query string, and whether the string has a row with
\* executed_at set
HasRow(qs, query) == \E i \in 1..Len(qs) : qs[i].query = query
RowOf(qs, query) == qs[CHOOSE i \in 1..Len(qs) : qs[i].query = query]
IsExecuted(qs, query) == HasRow(qs, query) /\ IsSome(RowOf(qs, query).executed_at)

\* the post-qualifier query string that the draws d produce in this state
DrawnQuery(d) ==
    apply_repo_filters_to_query(make_random_query(keywords, d).query, run.filters)

\* C1: a loop iteration that draws a query string whose row already has
\* executed_at set adds one to attempts, sends no request, merges no
\* repository, leaves the queries table as it was, does not count a step and
\* goes back to the loop condition.
C1_CachedQueryConsumesAttemptOnly ==
    [][\A d \in Draws :
         (Draw(d) /\ DrawnQuery(d).raised = "none" /\ IsExecuted(queries, DrawnQuery(d).query))
         => /\ attempts' = attempts + 1
            /\ upstream' = upstream
            /\ repos' = repos
            /\ repo_hits' = repo_hits
            /\ queries' = queries
            /\ executed_steps' = executed_steps
            /\ pc' = "while"]_vars

\* C1 witness: an iteration has just ended without executing any query (no
\* row carries this iteration's timestamp) and without raising
C1_Witness ==
    /\ pc = "while"
    /\ attempts >= 1
    /\ queries # <<>>
    /\ \A i \in 1..Len(queries) :
          IsSome(queries[i].executed_at) /\ Get(queries[i].executed_at) < clock

\* C2: all the requests the search API receives for one query string come
\* from one loop iteration, over all runs, and whenever no iteration is under
\* way every query string a request was sent for has executed_at set.
C2_AtMostOneIterationPerQuery ==
    /\ \A x, y \in upstream.sent : x.query = y.query => x.at = y.at
    /\ pc \in {"idle", "while", "done", "raised"}
          => \A x \in upstream.sent : IsExecuted(queries, x.query)

\* C2 witness: a query whose paging ended by an exception, with a later
\* iteration begun since
C2_Witness ==
    \E x \in upstream.sent :
        /\ IsExecuted(queries, x.query)
        /\ RowOf(queries, x.query).last_status = Some(0)
        /\ x.at < clock

\* C3: when an iteration whose last response had a non-success status ends,
\* the query's row holds that status, the truncated body and executed_at, no
\* later page was requested, and a failure on page 1 merged nothing.
C3_NonSuccessStatusIsRecorded ==
    [][(pc = "after_for" /\ IsSome(resp) /\ Get(resp).status # 200 /\ pc' = "while")
        => /\ queries'[cur.qid].last_status = Some(Get(resp).status)
           /\ queries'[cur.qid].last_error = Some(Prefix(Get(resp).text, ErrorTextLimit))
           /\ IsSome(queries'[cur.qid].executed_at)
           /\ \A x \in upstream.sent : x.query = cur.query => x.page <= cur.page
           /\ cur.page = 1 => \A i \in 1..Len(repo_hits) : repo_hits[i].query_id # cur.qid]_vars

\* C4: the handler of an exception raised while paging marks the query
\* executed with status 0 and the message, and hands control back to the loop
\* condition with the run's counters as they were; no step taken while
\* paging ends or aborts the run.
C4_ExceptionIsCaughtPerQuery ==
    [][/\ pc = "except"
          => /\ pc' = "while"
             /\ queries'[cur.qid].last_status = Some(0)
             /\ queries'[cur.qid].last_error = Some(Text(exc, 20))
             /\ IsSome(queries'[cur.qid].executed_at)
             /\ <<run, attempts, executed_steps>>' = <<run, attempts, executed_steps>>
       /\ pc \in {"request", "throttle", "response", "merge", "after_for", "except"}
          => pc' \notin {"raised", "done", "idle"}]_vars

\* C4 witness: the handler has just recorded a response that was no JSON and
\* the loop goes on
C4_Witness ==
    /\ pc = "while"
    /\ exc = "JSONDecodeError"
    /\ cur.qid \in 1..Len(queries)
    /\ queries[cur.qid].last_status = Some(0)
    /\ queries[cur.qid].executed_at = Some(clock)
    /\ LoopCond

\* _build_numeric_qualifier accepts every one of the four ranges
FiltersValid(f) == apply_repo_filters_to_query(<<>>, f).raised = "none"

Budget == run.steps * run.max_query_attempts

\* C9 as claimed: the counters stay within the target and the budget, and the
\* run ends without raising with one of them reached.
C9_RunEndsWithoutRaising ==
    /\ executed_steps <= run.steps
    /\ attempts <= Budget
    /\ pc # "raised"
    /\ pc = "done" => (executed_steps = run.steps \/ attempts = Budget)

\* the positions inside a run
Running == {"while", "request", "throttle", "response", "merge", "after_for", "except"}

\* the longest page the search API returns
MaxItemsOnPage ==
    CHOOSE n \in 0..8 :
        (\A p1 \in PageItems : Len(p1) <= n) /\ (\E p2 \in PageItems : Len(p2) = n)

\* A measure of the steps a run has left: the attempts left, then the pages
\* left of the query, then the statements and items left of the page.
PageRank == MaxItemsOnPage + 3
PagesLeft == run.pages_per_query - cur.page
Inner ==
    CASE pc = "while" -> 1
      [] pc \in {"after_for", "except"} -> 2
      [] pc = "merge" -> 3 + PagesLeft * PageRank + Len(items)
      [] pc = "response" -> 3 + PagesLeft * PageRank + MaxItemsOnPage + 1
      [] pc = "throttle" -> 3 + PagesLeft * PageRank + MaxItemsOnPage + 2
      [] pc = "request" -> 3 + PagesLeft * PageRank + MaxItemsOnPage + 3
      [] OTHER -> 0
Rank == (Budget - attempts) * (run.pages_per_query * PageRank + MaxItemsOnPage + 7) + Inner

\* the statement at the run's position can be executed
CanStep ==
    CASE pc = "request" -> cur.page \in 1..run.pages_per_query
      [] pc \in {"throttle", "response"} -> IsSome(resp)
      [] pc = "merge" -> items # <<>>
      [] pc \in {"after_for", "except"} -> cur.qid \in 1..Len(queries)
      [] OTHER -> TRUE

\* C9 as amended: the counters stay within the target and the budget; a run
\* raises only the validation failure of invalid qualifier bounds; a run with
\* valid bounds ends, at the loop condition, with the target or the budget
\* reached.
\* Every step of a run strictly decreases Rank, a natural number, and leaves
\* the run able to take a step until it has ended: a run takes finitely many
\* steps and then is at "done" or "raised".
C9_TerminatesWithinBudget ==
    [][/\ pc \in Running => (Rank' < Rank /\ Rank' >= 0)
       /\ executed_steps' <= run'.steps
       /\ attempts' <= run'.steps * run'.max_query_attempts
       /\ pc' = "done" => (executed_steps' = run'.steps
                             \/ attempts' = run'.steps * run'.max_query_attempts)
       /\ pc' = "raised" => (~FiltersValid(run'.filters) /\ exc' = "ValueError")
       /\ CanStep']_vars

\* C9 witness: a run has ended on its attempt budget, short of its target
C9_Witness ==
    /\ pc = "done"
    /\ FiltersValid(run.filters)
    /\ executed_steps < run.steps
    /\ attempts = Budget
    /\ Budget > 0

\* C10: a request is sent only when the request before it in the run has
\* been followed by a throttle sleep.
C10_ThrottleAfterEveryRequest == upstream.since_sleep <= 1

-----------------------------------------------------------------------------
(* Claims about the repository merge and the query cache *)

StoredTopics(row) == Range(_load_json(row.topics_json, <<>>))
StoredTags(row) == _load_json(row.merged_tags_json, EmptyDict)

\* C5: an upsert removes no repository, no topic from a repository's stored
\* topics and no term from any category of its stored merged_tags.
C5_TopicsAndTagsNeverShrink ==
    [][\A n \in DOMAIN repos :
         /\ n \in DOMAIN repos'
         /\ StoredTopics(repos[n]) \subseteq StoredTopics(repos'[n])
         /\ \A k \in DOMAIN StoredTags(repos[n]) :
               /\ k \in DOMAIN StoredTags(repos'[n])
               /\ Range(StoredTags(repos[n])[k]) \subseteq Range(StoredTags(repos'[n])[k])]_vars

\* C5 witness: a repository updated with new topics and a second term in a
\* category holds both topics and both terms
C5_Witness ==
    /\ "a/b" \in DOMAIN repos
    /\ Cardinality(StoredTopics(repos["a/b"])) >= 2
    /\ "domain" \in DOMAIN StoredTags(repos["a/b"])
    /\ Len(StoredTags(repos["a/b"])["domain"]) >= 2

\* a list in strictly ascending order
IsSortedNoDup(l) == \A i \in 1..(Len(l) - 1) : StrLess(l[i], l[i + 1])

\* the per-category union of existing and the hit_tags of hs, as sets
UnionTags(existing, hs) ==
    [k \in DOMAIN existing \cup UNION {DOMAIN h : h \in hs} |->
        (IF k \in DOMAIN existing THEN Range(existing[k]) ELSE {})
        \cup {h[k] : h \in {g \in hs : k \in DOMAIN g}}]

\* C6: merging h1 twice gives what merging it once gives; merging h1 then h2
\* gives what merging h2 then h1 gives: for every category the sorted,
\* duplicate-free list of the union of the terms.
C6_MergeIdempotentAndCommutative ==
    pin.stage = "out" =>
        /\ pin.twice = pin.once
        /\ pin.h1_h2 = pin.h2_h1
        /\ DOMAIN pin.h1_h2 = DOMAIN UnionTags(pin.existing, {pin.h1, pin.h2})
        /\ \A k \in DOMAIN pin.h1_h2 :
              /\ IsSortedNoDup(pin.h1_h2[k])
              /\ Range(pin.h1_h2[k]) = UnionTags(pin.existing, {pin.h1, pin.h2})[k]

\* C6 witness: two hit_tags with different terms for a category that an
\* unsorted stored list already has
C6_Witness ==
    /\ pin.stage = "out"
    /\ "domain" \in DOMAIN pin.h1 \cap DOMAIN pin.h2 \cap DOMAIN pin.existing
    /\ pin.h1["domain"] # pin.h2["domain"]
    /\ pin.existing["domain"] = <<fem, cfd>>
    /\ Len(pin.h1_h2["domain"]) = 3

HitsOf(hits, full_name) == SelectSeq(hits, LAMBDA h : h.repo_full_name = full_name)
IsPrefix(a, b) == Len(a) <= Len(b) /\ SubSeq(b, 1, Len(a)) = a
HasFullName(repo_item) == IsSome(repo_item.full_name) /\ Get(repo_item.full_name) # ""

\* an upsert call has just returned without raising
UpsertReturned == pin'.op = "db_upsert_repo_and_hit" /\ pin'.raised = "none"

\* the new last row of repo_hits is the call's hit
AppendsOneHit ==
    /\ Len(repo_hits') = Len(repo_hits) + 1
    /\ repo_hits'[Len(repo_hits')].query_id = pin'.query_id
    /\ repo_hits'[Len(repo_hits')].hit_tags_json = JsonDumps(pin'.hit_tags)

\* upserting a/b with {domain: cfd} and then with {method: fem}
ScenarioHits(hits) ==
    /\ Len(HitsOf(hits, "a/b")) = 2
    /\ HitsOf(hits, "a/b")[1].hit_tags_json = JsonDumps("domain" :> cfd)
    /\ HitsOf(hits, "a/b")[2].hit_tags_json = JsonDumps("method" :> fem)

\* C7 as claimed: every call that returns appends exactly one repo_hits row
\* with its query id and hit_tags, and the rows already there stay as they are.
C7_EveryCallAppendsOneHit ==
    [][/\ UpsertReturned => AppendsOneHit
       /\ IsPrefix(repo_hits, repo_hits')]_vars

\* C7 as amended: every call whose item has a non-empty full_name appends
\* exactly one such row; a call whose item has none changes nothing; the
\* rows already there stay as they are; after the two upserts of a/b its
\* merged_tags are {domain: [cfd], method: [fem]}.
C7_CallWithFullNameAppendsOneHit ==
    [][/\ (UpsertReturned /\ HasFullName(pin'.repo_item)) => AppendsOneHit
       /\ (UpsertReturned /\ ~HasFullName(pin'.repo_item))
             => (repo_hits' = repo_hits /\ repos' = repos)
       /\ IsPrefix(repo_hits, repo_hits')
       /\ ScenarioHits(repo_hits')
             => StoredTags(repos'["a/b"]) = ("domain" :> <<cfd>>) @@ ("method" :> <<fem>>)]_vars

\* C7 witness: a/b was inserted with {domain: cfd} and updated with
\* {method: fem}
C7_Witness ==
    /\ ScenarioHits(repo_hits)
    /\ pin.op = "db_upsert_repo_and_hit"
    /\ pin.hit_tags = ("method" :> fem)

\* C8: db_insert_query_if_new with a query string that has a row leaves the
\* table as it was and returns that row's id; no two rows hold the same
\* query string.
C8_ReinsertIsNoOp ==
    [][/\ (pin'.op = "db_insert_query_if_new" /\ HasRow(queries, pin'.query))
             => (queries' = queries /\ pin'.returned = RowOf(queries, pin'.query).id)
       /\ \A i, j \in 1..Len(queries') : queries'[i].query = queries'[j].query => i = j]_vars

\* C8 witness: a re-insert, with another recipe, of a query that is executed
C8_Witness ==
    /\ pin # <<>>
    /\ pin.op = "db_insert_query_if_new"
    /\ Len(queries) = 1
    /\ IsSome(queries[1].executed_at)
    /\ queries[1].recipe_json # JsonDumps(pin.recipe)

-----------------------------------------------------------------------------
(* Claims about two processes on one store, checked under SpecRace *)

\* both processes have merged a/b, or failed to
BothUpserted == \A p \in Procs : IsSome(proc[p].item) /\ proc[p].pc \in {"after_for", "except", "done"}

\* what process p brings to a/b
ContributedTags(p) == proc[p].hit_tags
ContributedTopics(p) == Range(IncomingTopics(Get(proc[p].item)))

\* C11: when two processes upsert the same repository with different
\* hit_tags and topics, neither call fails, the stored merged_tags and topics
\* hold both contributions, and each process has appended its repo_hits row.
C11_ConcurrentUpsertsMergeBoth ==
    (/\ BothUpserted
     /\ proc[1].hit_tags # proc[2].hit_tags
     /\ proc[1].item # proc[2].item) =>
        /\ \A p \in Procs : proc[p].exc = "none"
        /\ \A p \in Procs :
              /\ ContributedTopics(p) \subseteq StoredTopics(repos["a/b"])
              /\ \A k \in DOMAIN ContributedTags(p) :
                    /\ k \in DOMAIN StoredTags(repos["a/b"])
                    /\ ContributedTags(p)[k] \in Range(StoredTags(repos["a/b"])[k])
        /\ \A p \in Procs : \E i \in 1..Len(repo_hits) : repo_hits[i].query_id = proc[p].qid

\* C12: the requests the search API receives for one query string all come
\* from one process.
C12_OneProcessSendsAQuery ==
    \A x, y \in upstream.sent : x.query = y.query => x.by = y.by

-----------------------------------------------------------------------------
(* Claims about the pure functions *)

\* C13: with a positive total weight neither picker returns a row of weight
\* zero, whatever the draw; with a total weight of zero the row returned is
\* the generator's choice among all the rows.
C13_NeverPicksZeroWeight ==
    pin.stage = "out" =>
        IF SumWeights(pin.weights, Len(pin.weights)) > 0
        THEN pin.weights[pin.chosen] > 0 /\ pin.weights[pin.picked] > 0
        ELSE pin.chosen = (pin.d % Len(pin.weights)) + 1 /\ pin.picked = pin.chosen

\* the recipe type a draw selects: 0.45, 0.25, 0.15, 0.10, 0.05 of [0, 1),
\* and DI in place of DHI when no hpc keyword is active
DrawnType(d) ==
    LET t == IF d.rtype <= 45 THEN "DMI" ELSE IF d.rtype <= 70 THEN "DI"
             ELSE IF d.rtype <= 85 THEN "MI" ELSE IF d.rtype <= 95 THEN "DHI" ELSE "DL"
    IN  IF t = "DHI" /\ ~\E i \in 1..Len(keywords) :
                            keywords[i].category = "hpc" /\ keywords[i].status = "active"
        THEN "DI" ELSE t

\* the keyword categories a recipe type consumes, in the order of the query
Consumed(t) ==
    CASE t = "DMI" -> <<"domain", "method", "intent">>
      [] t = "DI"  -> <<"domain", "intent">>
      [] t = "MI"  -> <<"method", "intent">>
      [] t = "DHI" -> <<"domain", "intent", "hpc">>
      [] t = "DL"  -> <<"domain", "intent">>

\* the active keyword terms of a category
ActiveTerms(category) ==
    {keywords[i].term : i \in {j \in 1..Len(keywords) :
         keywords[j].category = category /\ keywords[j].status = "active"}}

\* a then one space then b
Spaced(a, b) == a \o <<" ">> \o b

FixedBaits ==
    { <<"c", "+", "+">>, <<"f", "o", "r", "t", "r", "a", "n">>, <<"p", "y", "t", "h", "o", "n">>,
      <<"j", "u", "l", "i", "a">>, <<"r", "u", "s", "t">>, <<"c", "u", "d", "a">>,
      <<"l", "i", "c", "e", "n", "s", "e">>, <<"g", "p", "l">>, <<"l", "g", "p", "l">>,
      <<"b", "s", "d">>, <<"m", "i", "t">>, <<"a", "p", "a", "c", "h", "e", "-", "2", ".", "0">>,
      <<"m", "p", "l", "-", "2", ".", "0">>, <<"e", "p", "l", "-", "2", ".", "0">> }

\* C14: the query is the terms of the consumed categories, one active keyword
\* term each, in the recipe's order with one space between them, and for DL
\* one of the fixed baits after them; with cfd, fem and solver the only
\* keywords, DMI gives "cfd fem solver" and {domain: cfd, method: fem,
\* intent: solver}.
C14_QueryIsSpaceJoinOfConsumedTerms ==
    pin.stage = "out" =>
        LET t == DrawnType(pin.d)
            c == Consumed(t)
        IN  /\ pin.made.raised = "none"
            /\ \E terms \in [1..Len(c) -> UNION {ActiveTerms(k) : k \in Range(c)}] :
                  /\ \A i \in 1..Len(c) : terms[i] \in ActiveTerms(c[i])
                  /\ LET body == IF Len(c) = 2 THEN Spaced(terms[1], terms[2])
                                 ELSE Spaced(terms[1], Spaced(terms[2], terms[3]))
                     IN  IF t = "DL"
                         THEN \E b \in FixedBaits : pin.made.query = Spaced(body, b)
                         ELSE pin.made.query = body
            /\ (Len(keywords) = 3 /\ t = "DMI") =>
                  /\ pin.made.query = <<"c", "f", "d", " ", "f", "e", "m", " ",
                                        "s", "o", "l", "v", "e", "r">>
                  /\ pin.made.hit_tags = [domain |-> cfd, method |-> fem, intent |-> solver]

\* C14 witness: the scenario has been composed
C14_Witness ==
    /\ pin.stage = "out"
    /\ Len(keywords) = 3
    /\ DrawnType(pin.d) = "DMI"
    /\ pin.made.recipe.type = "DMI"

\* the terms hit_tags holds for the consumed categories, in the query's order
TaggedBody(tags, c) ==
    IF Len(c) = 2 THEN Spaced(tags[c[1]], tags[c[2]])
    ELSE Spaced(tags[c[1]], Spaced(tags[c[2]], tags[c[3]]))

\* hit_tags holds, for each consumed category, the active keyword term of
\* that category that the query was composed from
TagsOfConsumed(t, made) ==
    /\ \A k \in Range(Consumed(t)) : k \in DOMAIN made.hit_tags /\ made.hit_tags[k] \in ActiveTerms(k)
    /\ IF t = "DL"
       THEN \E b \in FixedBaits : made.query = Spaced(TaggedBody(made.hit_tags, Consumed(t)), b)
       ELSE made.query = TaggedBody(made.hit_tags, Consumed(t))

\* C15 as claimed: the keys of hit_tags are exactly the consumed keyword
\* categories (DL: domain and intent), each with the chosen term, and every
\* key is one of domain, method, intent, hpc.
C15_HitTagsAreTheConsumedCategories ==
    pin.stage = "out" =>
        /\ TagsOfConsumed(DrawnType(pin.d), pin.made)
        /\ DOMAIN pin.made.hit_tags = Range(Consumed(DrawnType(pin.d)))
        /\ DOMAIN pin.made.hit_tags \subseteq {"domain", "method", "intent", "hpc"}

\* C15 as amended: the same, except that a DL result also holds the entry
\* bait -> the bait token of the query, so that the keys are keyword
\* categories or "bait".
C15_HitTagsAreConsumedCategoriesAndBait ==
    pin.stage = "out" =>
        LET t == DrawnType(pin.d)
        IN  /\ TagsOfConsumed(t, pin.made)
            /\ DOMAIN pin.made.hit_tags =
                  Range(Consumed(t)) \cup (IF t = "DL" THEN {"bait"} ELSE {})
            /\ t = "DL" =>
                  /\ pin.made.hit_tags["bait"] \in FixedBaits
                  /\ pin.made.query = Spaced(TaggedBody(pin.made.hit_tags, Consumed(t)),
                                             pin.made.hit_tags["bait"])

\* C15 witness: a DL result over the table with every row
C15_Witness ==
    /\ pin.stage = "out"
    /\ pin.made.recipe.type = "DL"
    /\ "bait" \in DOMAIN pin.made.hit_tags
    /\ Len(keywords) = 8

\* a bound is negative, or both are given and min > max
BoundsInvalid(min_value, max_value) ==
    \/ IsSome(min_value) /\ Get(min_value) < 0
    \/ IsSome(max_value) /\ Get(max_value) < 0
    \/ IsSome(min_value) /\ IsSome(max_value) /\ Get(min_value) > Get(max_value)

\* C16: _build_numeric_qualifier raises exactly when a bound is negative or
\* both bounds are given with min > max; min == max does not raise.
C16_RaisesExactlyOnInvalidBounds ==
    pin.stage = "out" =>
        /\ (pin.built.raised # "none") <=> BoundsInvalid(pin.f.min_stars, pin.f.max_stars)
        /\ (IsSome(pin.f.min_stars) /\ pin.f.min_stars = pin.f.max_stars
            /\ Get(pin.f.min_stars) >= 0) => pin.built.raised = "none"

\* C16 witness: min == max was accepted
C16_Witness ==
    /\ pin.stage = "out"
    /\ pin.f.min_stars = Some(2)
    /\ pin.f.max_stars = Some(2)
    /\ pin.built.raised = "none"

\* the text a qualifier adds to the query: nothing, or a space and one token
Token(name, min_value, max_value) ==
    IF ~IsSome(min_value) /\ ~IsSome(max_value) THEN <<>>
    ELSE <<" ">> \o name \o <<":">> \o
         (IF IsSome(min_value) /\ IsSome(max_value)
          THEN IntStr(Get(min_value)) \o <<".", ".">> \o IntStr(Get(max_value))
          ELSE IF IsSome(min_value) THEN <<">", "=">> \o IntStr(Get(min_value))
          ELSE <<"<", "=">> \o IntStr(Get(max_value)))

\* C17: for valid bounds the augmented query is the base query followed by
\* the tokens of stars, forks, followers, topics in this order, one for each
\* qualifier with a bound; with no bound it is the base query.
C17_QualifiersAppendedInOrder ==
    (/\ pin.stage = "out"
     /\ ~BoundsInvalid(pin.f.min_stars, pin.f.max_stars)
     /\ ~BoundsInvalid(pin.f.min_forks, pin.f.max_forks)
     /\ ~BoundsInvalid(pin.f.min_followers, pin.f.max_followers)
     /\ ~BoundsInvalid(pin.f.min_topics, pin.f.max_topics)) =>
        /\ pin.applied.raised = "none"
        /\ pin.applied.query =
              pin.base_query
              \o Token(<<"s", "t", "a", "r", "s">>, pin.f.min_stars, pin.f.max_stars)
              \o Token(<<"f", "o", "r", "k", "s">>, pin.f.min_forks, pin.f.max_forks)
              \o Token(<<"f", "o", "l", "l", "o", "w", "e", "r", "s">>,
                       pin.f.min_followers, pin.f.max_followers)
              \o Token(<<"t", "o", "p", "i", "c", "s">>, pin.f.min_topics, pin.f.max_topics)
        /\ pin.f = NoFilters => pin.applied.query = pin.base_query

\* C17 witness: a range, a minimum, an omitted qualifier and a maximum
C17_Witness ==
    /\ pin.stage = "out"
    /\ pin.applied.raised = "none"
    /\ pin.f.min_stars = Some(0) /\ pin.f.max_stars = Some(2)
    /\ pin.f.min_forks = Some(1) /\ pin.f.max_forks = None
    /\ pin.f.min_followers = None /\ pin.f.max_followers = None
    /\ pin.f.max_topics = Some(10)
    /\ pin.applied.query = di \o <<" ", "s", "t", "a", "r", "s", ":", "0", ".", ".", "2",
                                  " ", "f", "o", "r", "k", "s", ":", ">", "=", "1",
                                  " ", "t", "o", "p", "i", "c", "s", ":", "<", "=", "1", "0">>

\* n * x on floats, n a natural number
FloatTimes(n, x) == FloatRound([t |-> n * x.t, e |-> n * x.e])

\* the candidate row of an observed term
Candidate(term) ==
    keyword_candidates[CHOOSE i \in 1..Len(keyword_candidates) : keyword_candidates[i].term = term]

RecordedTerms ==
    { keyword_candidates'[i].term :
        i \in { j \in 1..Len(keyword_candidates') :
                  \/ j > Len(keyword_candidates)
                  \/ keyword_candidates'[j].occurrences # keyword_candidates[j].occurrences } }

\* t equals kw, is a substring of kw, or contains kw
Related(t, kw) == t = kw \/ IsSubstring(t, kw) \/ IsSubstring(kw, t)

\* C19 as claimed: run_extract_candidates never inserts or re-observes a
\* candidate whose term equals, is a substring of, or contains the term of a
\* keyword that is active when the extraction runs.
C19_NeverRecordsTermRelatedToActiveKeyword ==
    [][\A t \in RecordedTerms :
          \A i \in 1..Len(keywords) :
              keywords[i].status = "active" => ~Related(t, keywords[i].term)]_vars

\* C19 as amended: the same for the active keywords whose term is not the
\* empty string; a keyword with the empty term, which every token contains,
\* filters nothing.
C19_NeverRecordsTermRelatedToNonEmptyActiveKeyword ==
    [][\A t \in RecordedTerms :
          \A i \in 1..Len(keywords) :
              (keywords[i].status = "active" /\ keywords[i].term # <<>>) =>
                  ~Related(t, keywords[i].term)]_vars

\* C19 witness: with the seeds active, an extraction over the repository
\* whose description holds "XFEM-2d GPU mesh" recorded gpu and mesh and left
\* out xfem-2d, which contains the keyword fem
C19_Witness ==
    /\ pin.op = "run_extract_candidates"
    /\ clock = 3
    /\ \E i \in 1..Len(keywords) : keywords[i].status = "active" /\ keywords[i].term = fem
    /\ \E j \in 1..Len(keyword_candidates) : keyword_candidates[j].term = gpu
    /\ \E j \in 1..Len(keyword_candidates) : keyword_candidates[j].term = mesh
    /\ \A j \in 1..Len(keyword_candidates) : keyword_candidates[j].term # <<"x", "f", "e", "m", "-", "2", "d">>

\* C20: after any sequence of seeding and promotion (single-term and batch),
\* keywords holds at most one row per (category, term) and every stored term
\* is trimmed and lower-cased.
C20_KeywordsUniqueAndNormalized ==
    /\ \A i, j \in 1..Len(keywords) :
           (keywords[i].category = keywords[j].category /\ keywords[i].term = keywords[j].term)
               => i = j
    /\ \A i \in 1..Len(keywords) :
           /\ keywords[i].term = Strip(keywords[i].term)
           /\ keywords[i].term = Lower(keywords[i].term)

\* C20 witness: " Mesh " was promoted a second time into the category that
\* already holds mesh, next to a cfd keyword from the seeds or a CSV file
C20_Witness ==
    /\ pin.op = "cmd_promote"
    /\ pin.term = Some(<<" ", "M", "e", "s", "h", " ">>)
    /\ pin.outcome = "exists"
    /\ \E i \in 1..Len(keywords) :
           keywords[i].term = mesh /\ keywords[i].category = Get(pin.category)
    /\ \E i \in 1..Len(keywords) : keywords[i].term = cfd

HasKeyword(category, term) ==
    \E i \in 1..Len(keywords) : keywords[i].category = category /\ keywords[i].term = term

\* every row of a CSV file is complete and names a keyword that exists
AllRowsExist(rows, args_category) ==
    \A k \in 1..Len(rows) :
        /\ RowTerm(rows[k]) # <<>>
        /\ RowCategory(rows[k], args_category) # ""
        /\ (RowWeightText(rows[k]) = <<>> \/ ParsesAsFloat(RowWeightText(rows[k])))
        /\ HasKeyword(RowCategory(rows[k], args_category), RowTerm(rows[k]))

\* C22: promoting a (category, term) that is a keyword already is a reported
\* no-op in single-term mode and in batch mode: no exception, the keyword
\* rows and the candidate rows stay as they are.
C22_PromotingExistingKeywordIsNoOp ==
    [][/\ (/\ pin'.op = "cmd_promote"
           /\ IsSome(pin'.term)
           /\ IsSome(pin'.category)
           /\ HasKeyword(Get(pin'.category), normalize_term(Get(pin'.term))))
          => /\ pin'.outcome = "exists"
             /\ keywords' = keywords
             /\ keyword_candidates' = keyword_candidates
       /\ (pin'.op = "cmd_promote_csv" /\ AllRowsExist(pin'.rows, pin'.args_category))
          => /\ pin'.tally = [NoTally EXCEPT !.skipped_exists = Len(pin'.rows)]
             /\ keywords' = keywords
             /\ keyword_candidates' = keyword_candidates]_vars

\* C22 witness: a CSV file whose rows name the seeded keyword (domain, cfd)
\* was processed; the keyword still has the weight and source of the seed
C22_Witness ==
    /\ pin.op = "cmd_promote_csv"
    /\ pin.tally.skipped_exists = Len(pin.rows)
    /\ RowTerm(pin.rows[1]) = cfd
    /\ \E i \in 1..Len(keywords) :
           /\ keywords[i].category = "domain" /\ keywords[i].term = cfd
           /\ keywords[i].weight = 100 /\ keywords[i].source = "manual"
           /\ keywords[i].status = "active"

\* a CSV row with a term, a category and no weight text that raises
CompleteRow(row, args_category) ==
    /\ RowTerm(row) # <<>>
    /\ RowCategory(row, args_category) # ""
    /\ (RowWeightText(row) = <<>> \/ ParsesAsFloat(RowWeightText(row)))

\* C23: a batch promotion counts every row in exactly one of its five
\* tallies; rows counted as failures change neither keywords nor candidates;
\* a row counted as promoted (a complete row whose keyword did not exist)
\* leaves its keyword present and active and the candidates of its term
\* promoted.
C23_BatchTalliesEveryRowAndPromotes ==
    [][pin'.op = "cmd_promote_csv" =>
          /\ pin'.tally.promoted + pin'.tally.skipped_exists
                 + pin'.tally.skipped_missing_term + pin'.tally.skipped_missing_category
                 + pin'.tally.skipped_invalid_weight = Len(pin'.rows)
          /\ (pin'.tally.promoted = 0 =>
                 keywords' = keywords /\ keyword_candidates' = keyword_candidates)
          /\ \A k \in 1..Len(pin'.rows) :
                 LET row == pin'.rows[k]
                     category == RowCategory(row, pin'.args_category)
                 IN  (CompleteRow(row, pin'.args_category) /\ ~HasKeyword(category, RowTerm(row)))
                     => /\ pin'.tally.promoted >= 1
                        /\ \E i \in 1..Len(keywords') :
                               /\ keywords'[i].category = category
                               /\ keywords'[i].term = RowTerm(row)
                               /\ keywords'[i].status = "active"
                        /\ \A j \in 1..Len(keyword_candidates') :
                               keyword_candidates'[j].term = RowTerm(row) =>
                                   keyword_candidates'[j].status = "promoted"]_vars

\* the rows of a CSV file that have a term and a category and a weight text
\* that is no number
RowsWithInvalidWeight(rows, args_category) ==
    { k \in 1..Len(rows) :
        /\ RowTerm(rows[k]) # <<>>
        /\ RowCategory(rows[k], args_category) # ""
        /\ RowWeightText(rows[k]) # <<>>
        /\ ~ParsesAsFloat(RowWeightText(rows[k])) }

\* C29: after any sequence of seeding and promotion every keyword row has a
\* weight >= 0, and a batch promotion tallies the rows whose weight is no
\* number as invalid-weight failures.
C29_KeywordWeightsAreNonNegative ==
    /\ \A i \in 1..Len(keywords) : keywords[i].weight >= 0
    /\ pin.op = "cmd_promote_csv" =>
           pin.tally.skipped_invalid_weight =
               Cardinality(RowsWithInvalidWeight(pin.rows, pin.args_category))

\* the stored sources list of a candidate row
SourcesOf(row) == _load_json(row.sources_json, <<>>)

\* the term and the score increment of the observation a step makes
ObservedNow(term) == pin'[term] # pin[term]
IncrementNow(term) == IF pin'[term].topic # pin[term].topic THEN Float10 ELSE Float03

\* C30: the sources list of a candidate never holds more than 30 entries;
\* an observation made at 30 entries adds no entry but still adds its score
\* increment and one occurrence; score and occurrences never decrease.
C30_SourcesCappedCountersAccumulate ==
    [][\A i \in 1..Len(keyword_candidates) :
          LET old == keyword_candidates[i]
              new == keyword_candidates'[i]
          IN  /\ Len(SourcesOf(old)) <= 30
              /\ Len(SourcesOf(new)) <= 30
              /\ ~FloatLess(new.score, old.score)
              /\ new.occurrences >= old.occurrences
              /\ ObservedNow(old.term) =>
                     /\ new.occurrences = old.occurrences + 1
                     /\ new.score = FloatAdd(old.score, IncrementNow(old.term))
                     /\ FloatLess(old.score, new.score)
                     /\ IF Len(SourcesOf(old)) = 30
                        THEN SourcesOf(new) = SourcesOf(old)
                        ELSE Len(SourcesOf(new)) = Len(SourcesOf(old)) + 1]_vars

\* C30 witness: mesh was observed 32 times and keeps 30 sources
C30_Witness ==
    /\ keyword_candidates # <<>>
    /\ keyword_candidates[1].term = mesh
    /\ keyword_candidates[1].occurrences = 32
    /\ Len(SourcesOf(keyword_candidates[1])) = 30
    /\ pin[mesh].topic + pin[mesh].description = 32

\* The queries marked executed by the current run: the clock advances with
\* every attempt, so the run began at clock - attempts
MarkedByRun ==
    { i \in 1..Len(queries) :
        IsSome(queries[i].executed_at) /\ Get(queries[i].executed_at) > clock - attempts }

\* C24: every iteration that pages a query marks it executed and counts one
\* completed step, also when paging ends by an exception; a run that ends
\* with its target S reached has marked exactly S distinct queries.
C24_EveryPagedQueryCountsOneStep ==
    (pc = "done" /\ executed_steps = run.steps) => Cardinality(MarkedByRun) = run.steps

\* what the DI recipe returns for the keyword draws of pin.d
MadeByDI == make_random_query(keywords, [pin.d EXCEPT !.rtype = 50])

\* C25: when DHI is drawn and no hpc keyword is active, make_random_query
\* returns what the DI recipe returns for the same keyword draws: the query
\* "domain intent", hit_tags without hpc, and a recipe of type DI that
\* records the chosen domain and intent keywords.
C25_DhiWithoutHpcReturnsWhatDiReturns ==
    (pin.stage = "out" /\ pin.d.rtype = 90 /\ ActiveTerms("hpc") = {}) =>
        /\ pin.made.raised = "none"
        /\ pin.made.query = MadeByDI.query
        /\ pin.made.hit_tags = MadeByDI.hit_tags
        /\ DOMAIN pin.made.hit_tags = {"domain", "intent"}
        /\ pin.made.recipe.type = "DI"
        /\ pin.made.recipe.keywords = MadeByDI.recipe.keywords
        /\ Len(pin.made.recipe.keywords) = 2

\* the requests a step sends to the search API
NewRequests == upstream'.sent \ upstream.sent

\* the item has a repository row and a hit row of the current query
Merged(item) ==
    /\ HasFullName(item)
    /\ Get(item.full_name) \in DOMAIN repos
    /\ \E i \in 1..Len(repo_hits) :
           repo_hits[i].query_id = cur.qid /\ repo_hits[i].repo_full_name = Get(item.full_name)

\* what is in the database stays there: repository rows, hit rows and the
\* executed marks of queries
StoreKept ==
    /\ DOMAIN repos \subseteq DOMAIN repos'
    /\ IsPrefix(repo_hits, repo_hits')
    /\ \A i \in 1..Len(queries) :
           IsSome(queries[i].executed_at) =>
               (queries'[i].query = queries[i].query /\ IsSome(queries'[i].executed_at))

\* pages are requested in the order 1, 2, ... up to pages_per_query, for a
\* query that is not marked executed
RequestsInOrder ==
    \A s \in NewRequests :
        /\ s.page \in 1..run.pages_per_query
        /\ s.page = cur.page
        /\ s.page > 1 => [s EXCEPT !.page = @ - 1] \in upstream.sent
        /\ \A o \in upstream.sent : (o.query = s.query /\ o.at = s.at) => o.page < s.page
        /\ ~IsExecuted(queries, s.query)

\* C26 as claimed: pages are requested in order, every item of a page is
\* merged (repository row and hit row) before the next page is requested,
\* and whatever was merged or marked executed before the process is
\* terminated stays so and executed queries are not requested again.
C26_EveryItemMergedBeforeNextPage ==
    [][/\ RequestsInOrder
       /\ StoreKept
       /\ \A s \in NewRequests :
              s.page > 1 =>
                  \A k \in 1..Len(Get(Get(resp).json).items) :
                      Merged(Get(Get(resp).json).items[k])]_vars

\* C26 as amended: the same for every item of the page that carries a
\* full_name; an item without full_name is skipped.
C26_EveryNamedItemMergedBeforeNextPage ==
    [][/\ RequestsInOrder
       /\ StoreKept
       /\ \A s \in NewRequests :
              s.page > 1 =>
                  \A k \in 1..Len(Get(Get(resp).json).items) :
                      HasFullName(Get(Get(resp).json).items[k]) =>
                          Merged(Get(Get(resp).json).items[k])]_vars

\* C26 witness: a run was terminated after its first page was merged, and a
\* later run has marked another query executed while the merged repository
\* and the hit of the first run are still there
C26_Witness ==
    /\ pc = "while"
    /\ Len(queries) = 2
    /\ ~IsSome(queries[1].executed_at)
    /\ IsSome(queries[2].executed_at)
    /\ "a/b" \in DOMAIN repos
    /\ \E i \in 1..Len(repo_hits) : repo_hits[i].query_id = 1
    /\ \E s \in upstream.sent : s.page = 2 /\ s.query = queries[1].query

\* the integer a header carries, when it is there and int() accepts it
Carries(header) == IsSome(header) /\ int_parses(Get(header))

\* C27 as claimed: the call sleeps exactly once; when the response carries
\* remaining r <= 1 and reset t it sleeps max(t - now + 2, 2) seconds, and
\* when it carries remaining r > 1 it sleeps the minimum interval.
C27_SleepsUntilResetWhenRemainingAtMostOne ==
    (pin.stage = "out" /\ Carries(pin.headers.remaining) /\ Carries(pin.headers.reset)) =>
        LET r == int_of(Get(pin.headers.remaining))
            t == int_of(Get(pin.headers.reset))
        IN  /\ Len(pin.slept) = 1
            /\ r <= 1 => pin.slept[1] = 10 * max(t - pin.now + 2, 2)
            /\ r > 1 => pin.slept[1] = pin.min_sleep

\* C27 as amended: the call sleeps exactly once; it sleeps
\* max(t - now + 2, 2) seconds when both headers read as integers (a missing
\* remaining counts as 1, a missing reset as 0), r <= 1 and t > 0; in every
\* other case it sleeps the minimum interval.
C27_SleepsUntilPositiveResetWhenRemainingAtMostOne ==
    pin.stage = "out" =>
        LET rem  == pin.headers.remaining
            rst  == pin.headers.reset
            read == (IsSome(rem) => int_parses(Get(rem))) /\ (IsSome(rst) => int_parses(Get(rst)))
            r    == IF IsSome(rem) THEN int_of(Get(rem)) ELSE 1
            t    == IF IsSome(rst) THEN int_of(Get(rst)) ELSE 0
        IN  /\ Len(pin.slept) = 1
            /\ (read /\ r <= 1 /\ t > 0) => pin.slept[1] = 10 * max(t - pin.now + 2, 2)
            /\ ~(read /\ r <= 1 /\ t > 0) => pin.slept[1] = pin.min_sleep

\* C27 witness: remaining 0 and a reset 4 seconds ahead of now gave a sleep
\* of 6 seconds
C27_Witness ==
    /\ pin.stage = "out"
    /\ pin.headers.remaining = Some(<<"0">>)
    /\ pin.headers.reset = Some(<<"1", "2">>)
    /\ pin.now = 8
    /\ pin.slept = <<60>>

\* the row had executed_at set when an iteration ended: it is set and no
\* iteration is under way, or it was set before the iteration under way
\* began (the clock advances once per iteration)
Settled(i) ==
    /\ IsSome(queries[i].executed_at)
    /\ pc \in {"idle", "while", "done", "raised"} \/ Get(queries[i].executed_at) < clock

\* C28: a query row that has executed_at set when an iteration of the loop
\* ends is changed by no later iteration of this or a later run (recipe,
\* executed_at, last_status, last_total_count, last_error), and executed_at
\* is never reset to null.
C28_ExecutedQueryRowIsImmutable ==
    [][\A i \in 1..Len(queries) :
           /\ Settled(i) => queries'[i] = queries[i]
           /\ IsSome(queries[i].executed_at) => IsSome(queries'[i].executed_at)]_vars

\* C28 witness: the second iteration of a run drew the query that the first
\* iteration had executed, and skipped it
C28_Witness ==
    /\ pc = "while"
    /\ Len(queries) = 1
    /\ IsSome(queries[1].executed_at)
    /\ executed_steps = 1
    /\ attempts = 2

\* C31: no candidate recorded by run_extract_candidates is a stop-token or a
\* pure-numeric token, and every recorded term has length 3..49 and starts
\* with a letter or a digit (candidate rows are inserted by
\* run_extract_candidates only).
C31_RecordedTermsAreFilteredTokens ==
    \A i \in 1..Len(keyword_candidates) :
        LET t == keyword_candidates[i].term
        IN  /\ t \notin STOPWORDS
            /\ ~isdigit(t)
            /\ Len(t) >= 3 /\ Len(t) <= 49
            /\ t[1] \in LowerLetters \cup UpperLetters \cup Digits

\* the suggested_category of the row is NULL or ''
Uncategorized(row) == ~IsSome(row.suggested_category) \/ Get(row.suggested_category) = ""

\* the three vocabularies of infer_candidate_category, as the claim names them
SuggestedVocabulary ==
    [hpc    |-> { <<"c", "u", "d", "a">>, <<"g", "p", "u">>, <<"m", "p", "i">> },
     method |-> { <<"f", "e", "m">>, <<"f", "e", "a">>, <<"f", "v", "m">> },
     intent |-> { <<"s", "o", "l", "v", "e", "r">>, <<"e", "n", "g", "i", "n", "e">> }]

\* C32: run_suggest_categories changes a candidate row only if the row is
\* pending, its suggested_category is empty and its term is in the hpc,
\* method or intent vocabulary; the row then gets that category as
\* suggested_category and keeps every other field; all other rows, and the
\* number of rows, stay as they are.
C32_SuggestionOnlyFillsEmptyPendingKnownTerms ==
    [][(pin'.op = "run_suggest_categories") =>
           /\ Len(keyword_candidates') = Len(keyword_candidates)
           /\ \A i \in 1..Len(keyword_candidates) :
                  LET old == keyword_candidates[i]
                      new == keyword_candidates'[i]
                  IN  \/ new = old
                      \/ /\ old.status = "pending"
                         /\ Uncategorized(old)
                         /\ \E c \in DOMAIN SuggestedVocabulary :
                                /\ old.term \in SuggestedVocabulary[c]
                                /\ new = [old EXCEPT !.suggested_category = Some(c)]]_vars

\* C32 witness: after a suggestion run over a table with a promoted
\* candidate, gpu is pending with category hpc, the promoted candidate and a
\* pending candidate outside the vocabularies have no category
C32_Witness ==
    /\ pin.op = "run_suggest_categories"
    /\ \E i, j \in 1..Len(keyword_candidates) :
           /\ keyword_candidates[i].term = <<"g", "p", "u">>
           /\ keyword_candidates[i].status = "pending"
           /\ keyword_candidates[i].suggested_category = Some("hpc")
           /\ keyword_candidates[j].status = "pending"
           /\ keyword_candidates[j].term = <<"x", "f", "e", "m", "-", "2", "d">>
           /\ Uncategorized(keyword_candidates[j])
    /\ \E k \in 1..Len(keyword_candidates) :
           /\ keyword_candidates[k].status = "promoted"
           /\ Uncategorized(keyword_candidates[k])

\* a pair of bounds that is no range: a negative bound, or min > max
NoRange(min_value, max_value) ==
    \/ IsSome(min_value) /\ Get(min_value) < 0
    \/ IsSome(max_value) /\ Get(max_value) < 0
    \/ IsSome(min_value) /\ IsSome(max_value) /\ Get(min_value) > Get(max_value)

InvalidRange(f) ==
    \/ NoRange(f.min_stars, f.max_stars)
    \/ NoRange(f.min_forks, f.max_forks)
    \/ NoRange(f.min_followers, f.max_followers)
    \/ NoRange(f.min_topics, f.max_topics)

\* an iteration of a run with an invalid range begins
FailingIteration == pc = "while" /\ InvalidRange(run.filters) /\ attempts' = attempts + 1

\* the step inserts no query row, sends no request and writes no repository
\* or hit row
StoreUntouched ==
    /\ queries' = queries
    /\ repos' = repos
    /\ repo_hits' = repo_hits
    /\ upstream'.sent = upstream.sent

\* C33 as claimed: an iteration of run_harvest with an invalid range leaves
\* the store untouched and sends nothing, and the loop goes on to its other
\* iterations.
C33_InvalidRangeAbortsOneIteration ==
    [][FailingIteration => (StoreUntouched /\ pc' = "while")]_vars

\* C33 as amended: an iteration of run_harvest with an invalid range leaves
\* the store untouched and sends nothing, and the ValueError ends the run:
\* nothing more happens until another run is started.
C33_InvalidRangeAbortsTheRun ==
    [][/\ FailingIteration => (StoreUntouched /\ pc' = "raised" /\ exc' = "ValueError")
       /\ pc = "raised" => (StoreUntouched /\ attempts' = 0 /\ executed_steps' = 0)]_vars

\* C33 witness: a run with an invalid range and a budget of two attempts has
\* raised in its first iteration
C33_Witness ==
    /\ pc = "raised"
    /\ exc = "ValueError"
    /\ InvalidRange(run.filters)
    /\ run.steps * run.max_query_attempts = 2
    /\ attempts = 1
    /\ executed_steps = 0

\* the topic set a repository row stores; a NULL or unparseable column
\* stores none
StoredTopicSet(row) == Range(_load_json(row.topics_json, <<>>))

\* the topics of a detail response
DetailTopicSet(response) ==
    IF IsSome(Get(response.json).topics) THEN Range(Get(Get(response.json).topics)) ELSE {}

\* C35: over harvest upserts and enrich runs in any order no repository's
\* stored topic set shrinks; an enrich run changes only rows that were among
\* its targets, had an empty or unparseable topic set and got a success
\* response; a target with a non-success response keeps its row, and every
\* target with a success response gets the topics of the response, whatever
\* the responses for the other targets were.
C35_TopicSetNeverShrinksUnderEnrich ==
    [][/\ \A n \in DOMAIN repos :
              n \in DOMAIN repos' /\ StoredTopicSet(repos[n]) \subseteq StoredTopicSet(repos'[n])
       /\ pin'.op = "run_enrich_topics" =>
              /\ DOMAIN repos' = DOMAIN repos
              /\ pin'.targets \subseteq DOMAIN repos
              /\ \A n \in DOMAIN repos :
                     \/ repos'[n] = repos[n]
                     \/ /\ n \in pin'.targets
                        /\ StoredTopicSet(repos[n]) = {}
                        /\ pin'.responses[n].status = 200
              /\ \A n \in pin'.targets :
                     IF pin'.responses[n].status = 200
                     THEN StoredTopicSet(repos'[n]) = DetailTopicSet(pin'.responses[n])
                     ELSE repos'[n] = repos[n]]_vars

\* C35 witness: an enrich run had two targets; the detail request of a/b
\* failed and its row still has no topics, the request of c/d succeeded and
\* its row has the two topics of the response
C35_Witness ==
    /\ pin.op = "run_enrich_topics"
    /\ pin.targets = {"a/b", "c/d"}
    /\ pin.responses["a/b"].status = 404
    /\ StoredTopicSet(repos["a/b"]) = {}
    /\ pin.responses["c/d"].status = 200
    /\ StoredTopicSet(repos["c/d"]) = { <<"g", "p", "u">>, <<"M", "e", "s", "h">> }

\* the step is a call of db_upsert_repo_and_hit that finds a row of the
\* item's repository
UpdateBranch ==
    /\ pin'.op = "db_upsert_repo_and_hit"
    /\ pin'.repo_item.kind = "dict"
    /\ IsSome(pin'.repo_item.full_name)
    /\ Get(pin'.repo_item.full_name) \in DOMAIN repos

\* C38: on the update branch of db_upsert_repo_and_hit the snapshot,
\* html_url, api_url and description become those of the incoming item and
\* last_seen_at the time of the call, and first_seen_at stays; no step of an
\* upsert or of an enrich run changes a first_seen_at or removes a row.
C38_UpdateReplacesSnapshotKeepsFirstSeen ==
    [][/\ UpdateBranch =>
              LET item == pin'.repo_item
                  old  == repos[Get(item.full_name)]
                  new  == repos'[Get(item.full_name)]
              IN  /\ new.repo_json = Some(JsonDumps(item))
                  /\ new.html_url = item.html_url
                  /\ new.api_url = item.url
                  /\ new.description = item.description
                  /\ new.last_seen_at = clock
                  /\ new.first_seen_at = old.first_seen_at
       /\ \A n \in DOMAIN repos :
              n \in DOMAIN repos' /\ repos'[n].first_seen_at = repos[n].first_seen_at]_vars

\* C38 witness: a/b was inserted from one item and updated from another
\* with another html_url and description
C38_Witness ==
    /\ pin.op = "db_upsert_repo_and_hit"
    /\ pin.repo_item = ItemA2
    /\ "a/b" \in DOMAIN repos
    /\ repos["a/b"].first_seen_at = 1
    /\ repos["a/b"].last_seen_at = 2
    /\ repos["a/b"].html_url = Some("h2")
    /\ repos["a/b"].description = Some(<<"f", "e", "m">>)

\* the column holds a text that json.loads() rejects
Unparseable(column) == IsSome(column) /\ Get(column).kind # "json"

\* the candidate row of a term
CandidateRow(cands, term) == cands[CHOOSE i \in 1..Len(cands) : cands[i].term = term]

\* C39: db_upsert_repo_and_hit on a repository whose stored merged_tags or
\* topics is unparseable does not raise, appends its hit row and stores, for
\* an unparseable column, what it stores for an empty one: the incoming
\* topics, the tags of the hit; db_add_candidate on a candidate whose stored
\* sources are unparseable adds score_inc to the score and one to the
\* occurrences and stores the new source alone.
C39_UnparseableBlobsReadAsEmpty ==
    [][/\ UpdateBranch =>
              LET item == pin'.repo_item
                  old  == repos[Get(item.full_name)]
                  new  == repos'[Get(item.full_name)]
              IN  /\ (Unparseable(old.topics_json) \/ Unparseable(old.merged_tags_json)) =>
                         (pin'.raised = "none" /\ Len(repo_hits') = Len(repo_hits) + 1)
                  /\ Unparseable(old.topics_json) =>
                         new.topics_json = Some(JsonDumps(IncomingTopics(item)))
                  /\ Unparseable(old.merged_tags_json) =>
                         new.merged_tags_json =
                             Some(JsonDumps([k \in DOMAIN pin'.hit_tags |-> <<pin'.hit_tags[k]>>]))
       /\ (pin'.op = "db_add_candidate"
           /\ \E i \in 1..Len(keyword_candidates) :
                  /\ keyword_candidates[i].term = pin'.term
                  /\ Unparseable(keyword_candidates[i].sources_json)) =>
              LET old == CandidateRow(keyword_candidates, pin'.term)
                  new == CandidateRow(keyword_candidates', pin'.term)
              IN  /\ new.score = FloatAdd(old.score, pin'.score_inc)
                  /\ new.occurrences = old.occurrences + 1
                  /\ new.sources_json =
                         Some(JsonDumps(<<[repo_full_name |-> "a/b", field |-> pin'.field,
                                           evidence |-> pin'.term]>>))]_vars

\* C39 witness: the row of a/b, whose JSON columns were damaged, holds the
\* topics and tags of an upserted item, and the candidate mesh, whose sources
\* were damaged, has been observed a second time
C39_Witness ==
    /\ repos["a/b"].topics_json = Some(JsonDumps(<< <<"c", "f", "d">> >>))
    /\ repos["a/b"].merged_tags_json = Some(JsonDumps(("method" :> <<fem>>)))
    /\ Len(repo_hits) = 1
    /\ keyword_candidates[1].occurrences = 2
    /\ keyword_candidates[1].sources_json =
           Some(JsonDumps(<<[repo_full_name |-> "a/b", field |-> "topic", evidence |-> mesh]>>))

\* the step is taken by a harvest run that is under way
HarvestStep == pc \in Running

\* the step is a whole command of the named kinds, run while no harvest is
\* under way
CommandStep(ops) == pc \notin Running /\ pc' = pc /\ pin'.op \in ops

\* run_harvest leaves keywords and keyword_candidates alone; extraction,
\* suggestion and promotion leave queries, repos and repo_hits alone
OwnersKeepToTheirTables ==
    /\ HarvestStep => (keywords' = keywords /\ keyword_candidates' = keyword_candidates)
    /\ CommandStep({"run_extract_candidates", "run_suggest_categories", "cmd_promote",
                    "cmd_promote_csv"}) =>
           (queries' = queries /\ repos' = repos /\ repo_hits' = repo_hits)

\* C34 as claimed: run_harvest never changes keywords or keyword_candidates;
\* extraction, suggestion and promotion never change queries, repos or
\* repo_hits; a repos row is changed only by the repository upsert.
C34_ReposChangedOnlyByUpsert ==
    [][/\ OwnersKeepToTheirTables
       /\ repos' # repos => pc = "merge"]_vars

\* C34 as amended: the same, except that a repos row is changed only by the
\* repository upsert or by run_enrich_topics.
C34_ReposChangedOnlyByUpsertOrEnrich ==
    [][/\ OwnersKeepToTheirTables
       /\ repos' # repos => (pc = "merge" \/ CommandStep({"run_enrich_topics"}))]_vars

\* C34 witness: a harvest run has stored a/b and its hit, an enrich run has
\* given it topics, and an extraction has recorded candidates from it
C34_Witness ==
    /\ pin.op = "run_extract_candidates"
    /\ Len(repo_hits) = 1
    /\ "a/b" \in DOMAIN repos
    /\ StoredTopicSet(repos["a/b"]) = { <<"g", "p", "u">>, <<"M", "e", "s", "h">> }
    /\ Len(keyword_candidates) > 0
    /\ Len(keywords) > 0

\* the words of a query body: its pieces between single spaces
RECURSIVE BodyWords(_, _)
BodyWords(s, word) ==
    IF s = <<>> THEN {word}
    ELSE IF Head(s) = " " THEN {word} \cup BodyWords(Tail(s), <<>>)
    ELSE BodyWords(Tail(s), Append(word, Head(s)))

\* the query without the bait a DL recipe appended to it
VocabularyPart(made) ==
    IF IsSome(made.recipe.bait)
    THEN SubSeq(made.query, 1, Len(made.query) - Len(Get(made.recipe.bait)) - 1)
    ELSE made.query

\* C37: a paused keyword is never drawn: every vocabulary term of a generated
\* query, every keyword recorded in the recipe and every hit_tags value for
\* domain, method, intent or hpc belongs to a keyword that is active in that
\* category when the query is generated.
C37_PausedKeywordIsNeverDrawn ==
    (pin.stage = "out" /\ pin.made.raised = "none") =>
        /\ \A w \in BodyWords(VocabularyPart(pin.made), <<>>) :
              \E c \in DOMAIN pin.made.hit_tags \ {"bait"} :
                  w = pin.made.hit_tags[c]
        /\ \A c \in DOMAIN pin.made.hit_tags \ {"bait"} :
              /\ c \in {"domain", "method", "intent", "hpc"}
              /\ pin.made.hit_tags[c] \in ActiveTerms(c)
        /\ \A i \in 1..Len(pin.made.recipe.keywords) :
              \E j \in 1..Len(keywords) :
                  /\ keywords[j].status = "active"
                  /\ KwRef(keywords[j]) = pin.made.recipe.keywords[i]

\* C37 witness: a query was generated from a table in which a domain, a method
\* and an hpc keyword are paused
C37_Witness ==
    /\ pin.stage = "out"
    /\ pin.made.raised = "none"
    /\ pin.made.recipe.type = "DHI"
    /\ "hpc" \in DOMAIN pin.made.hit_tags
    /\ \A c \in {"domain", "method", "hpc"} :
          \E j \in 1..Len(keywords) :
              keywords[j].category = c /\ keywords[j].status = "paused"

\* every query string the generator can produce with the active keywords and
\* the qualifiers of the run is executed
AllProducibleExecuted ==
    \A d \in Draws :
        /\ make_random_query(keywords, d).raised = "none"
        /\ DrawnQuery(d).raised = "none"
        /\ IsExecuted(queries, DrawnQuery(d).query)

\* a run with a target above zero is at its loop condition, has completed no
\* step, and can produce executed queries only
ExhaustedRun ==
    /\ pc = "while"
    /\ run.steps > 0
    /\ executed_steps = 0
    /\ AllProducibleExecuted

\* C36: when every query string the generator can produce is already
\* executed, run_harvest with a target S > 0 sends no upstream request, writes
\* no repository, hit or query status, and ends after exactly
\* S * max_query_attempts attempts with zero completed steps.
C36_ExhaustedGeneratorEndsAtTheBudget ==
    /\ [][ExhaustedRun =>
            /\ upstream'.sent = upstream.sent
            /\ repos' = repos
            /\ repo_hits' = repo_hits
            /\ queries' = queries
            /\ executed_steps' = 0
            /\ pc' \in {"while", "done"}
            /\ pc' = "done" => attempts' = Budget]_vars
    /\ (ExhaustedRun /\ attempts = 0)
          ~> (pc = "done" /\ attempts = Budget /\ executed_steps = 0)

\* C36 witness: a run of budget two has ended on the exhausted generator
\* with no request sent
C36_Witness ==
    /\ pc = "done"
    /\ AllProducibleExecuted
    /\ run.steps > 0
    /\ Budget = 2
    /\ attempts = 2
    /\ executed_steps = 0
    /\ upstream.sent = {}

====
